---- MODULE Spec2Model ----
(***************************************************************************)
(* statbook: a player-summary aggregator over a statistics provider and a  *)
(* news provider.  The module models the orchestrator of                   *)
(* src/api/players.rs (get_player_summary and its fork-join helper), the   *)
(* two provider implementations it can be built with (the in-memory mock   *)
(* providers and the remote HTTP providers) and the slug normalizer.       *)
(*                                                                         *)
(* Strings the program inspects character by character (player names) are  *)
(* sequences of one-character strings; strings it only stores or compares  *)
(* (field values, URLs, messages) are TLA+ strings.                        *)
(***************************************************************************)
EXTENDS Integers, Sequences, FiniteSets, TLC

\* ------------------------------------------------------------------------
\* Bounds of the model
\* ------------------------------------------------------------------------

\* longest player list a remote stats response carries
MaxPlayers == 2

\* longest article list a remote news response carries
MaxArticles == 2

\* longest string handed to the slug normalizer
MaxSlugLen == 2

\* most whitespace characters a variant of a string carries beyond its length
MaxPadding == 2

\* calls that run concurrently on one shared client
MaxCalls == 2

\* registrations made on the mock providers before the fetches
MaxOps == 3

\* ------------------------------------------------------------------------
\* Option / Result values
\* ------------------------------------------------------------------------

None == [tag |-> "None"]

Some(v) == [tag |-> "Some", val |-> v]

Ok(v) == [tag |-> "Ok", val |-> v]

Err(e) == [tag |-> "Err", err |-> e]

IsOk(r) == r.tag = "Ok"

IsErr(r) == r.tag = "Err"

\* ------------------------------------------------------------------------
\* StatbookError (src/error.rs)
\* ------------------------------------------------------------------------

PlayerNotFound(n) == [tag |-> "PlayerNotFound", name |-> n]

\* reqwest::Error wrapped by #[from]; the cause is opaque
Network == [tag |-> "Network"]

\* serde_json::Error wrapped by #[from]; the cause is opaque
JsonParse == [tag |-> "JsonParse"]

StatsApi(s, m) == [tag |-> "StatsApi", status |-> s, message |-> m]

NewsApi(s, m) == [tag |-> "NewsApi", status |-> s, message |-> m]

Validation(m) == [tag |-> "Validation", message |-> m]

\* ------------------------------------------------------------------------
\* Slug normalizer (src/utils.rs)
\* ------------------------------------------------------------------------

UpperLetters == <<"A","B","C","D","E","F","G","H","I","J","K","L","M",
                  "N","O","P","Q","R","S","T","U","V","W","X","Y","Z">>

LowerLetters == <<"a","b","c","d","e","f","g","h","i","j","k","l","m",
                  "n","o","p","q","r","s","t","u","v","w","x","y","z">>

\* char::is_whitespace on the characters of the model
IsWhitespace(c) == c \in {" ", "\t", "\n"}

\* char lower-casing on the characters of the model
LowerChar(c) ==
    IF \E i \in 1..Len(UpperLetters) : UpperLetters[i] = c
    THEN LowerLetters[CHOOSE i \in 1..Len(UpperLetters) : UpperLetters[i] = c]
    ELSE c

\* the three Greek sigmas: capital (U+03A3), small (U+03C3), final (U+03C2)
CapitalSigma == "U+03A3"

SmallSigma == "U+03C3"

FinalSigma == "U+03C2"

\* Unicode property Cased on the characters of the model
Cased(c) ==
    \/ \E i \in 1..Len(UpperLetters) : c \in {UpperLetters[i], LowerLetters[i]}
    \/ c \in {CapitalSigma, SmallSigma, FinalSigma}

\* Unicode property Case_Ignorable on the characters of the model
Case_Ignorable(c) == c \in {"'", "."}

RECURSIVE case_ignorable_then_cased(_)
\* the first character that is not case-ignorable exists and is cased
case_ignorable_then_cased(chars) ==
    IF chars = <<>> THEN FALSE
    ELSE IF Case_Ignorable(Head(chars)) THEN case_ignorable_then_cased(Tail(chars))
    ELSE Cased(Head(chars))

\* the characters of s in reverse order
rev(s) == [i \in 1..Len(s) |-> s[Len(s) + 1 - i]]

\* str::to_lowercase on a capital sigma at index i: the final form at the
\* end of a word, the small form elsewhere
map_uppercase_sigma(from, i) ==
    IF /\ case_ignorable_then_cased(rev(SubSeq(from, 1, i - 1)))
       /\ ~case_ignorable_then_cased(SubSeq(from, i + 1, Len(from)))
    THEN FinalSigma
    ELSE SmallSigma

\* str::to_lowercase
to_lowercase(s) ==
    [i \in 1..Len(s) |->
        IF s[i] = CapitalSigma THEN map_uppercase_sigma(s, i) ELSE LowerChar(s[i])]

RECURSIVE SplitFrom(_, _, _, _)
\* scans s from index i; cur is the word being read, acc the words read
SplitFrom(s, i, cur, acc) ==
    IF i > Len(s)
    THEN IF cur = <<>> THEN acc ELSE Append(acc, cur)
    ELSE IF IsWhitespace(s[i])
         THEN SplitFrom(s, i + 1, <<>>, IF cur = <<>> THEN acc ELSE Append(acc, cur))
         ELSE SplitFrom(s, i + 1, Append(cur, s[i]), acc)

\* str::split_whitespace: the maximal runs of non-whitespace characters
split_whitespace(s) == SplitFrom(s, 1, <<>>, <<>>)

RECURSIVE join(_, _)
\* [&str]::join
join(words, sep) ==
    IF words = <<>> THEN <<>>
    ELSE IF Len(words) = 1 THEN words[1]
    ELSE words[1] \o sep \o join(Tail(words), sep)

to_dash_case(s) == to_lowercase(join(split_whitespace(s), <<"-">>))

\* ------------------------------------------------------------------------
\* Player names used by the calls
\* ------------------------------------------------------------------------

JoshAllenSlug == <<"j","o","s","h","-","a","l","l","e","n">>

TomBradySlug == <<"t","o","m","-","b","r","a","d","y">>

\* the names a caller passes to get_player_summary
CallNames ==
    { JoshAllenSlug,
      <<"J","o","s","h"," ","A","l","l","e","n">>,
      <<" "," ","J","O","S","H"," "," "," ","a","l","l","e","n">>,
      TomBradySlug,
      <<"T","o","m","\t","B","r","a","d","y"," ">>,
      <<"n","o","b","o","d","y">>,
      <<CapitalSigma, " ", "A", CapitalSigma>>,
      <<>> }

\* ------------------------------------------------------------------------
\* Domain model (src/models/result_types.rs, src/models/player.rs)
\* ------------------------------------------------------------------------

PlayerStats(fn, ln, pos, jersey, team, inj, rk, gp) ==
    [ first_name |-> fn, last_name |-> ln, primary_position |-> pos,
      jersey_number |-> jersey, current_team |-> team, injury |-> inj,
      rookie |-> rk, games_played |-> gp ]

Article(t, d, p, c) ==
    [ title |-> t, description |-> d, published_at |-> p, content |-> c ]

for_player_last_week(n) ==
    [ player_name |-> n, from_date |-> "2024-01-01", page_size |-> 5,
      sort_by |-> "publishedAt" ]

\* NewsQuery::for_player
for_player(n) ==
    [ player_name |-> n, from_date |-> "", page_size |-> 5,
      sort_by |-> "publishedAt" ]

PlayerSummaryResult(stats, news) ==
    [ player_stats |-> stats, news_result |-> news ]

StatsOnly == [tag |-> "StatsOnly"]

NewsOnly == [tag |-> "NewsOnly"]

Both(f) == [tag |-> "Both", fail_on_news_error |-> f]

FetchStrategy == {StatsOnly, NewsOnly, Both(TRUE), Both(FALSE)}

\* ------------------------------------------------------------------------
\* Mock providers (src/providers/mock_providers.rs)
\* A HashMap is a function whose domain is the set of inserted keys.
\* ------------------------------------------------------------------------

EmptyMap == << >>

\* HashMap::insert
insert(m, k, v) == [x \in (DOMAIN m) \cup {k} |-> IF x = k THEN v ELSE m[x]]

JoshAllenStats == PlayerStats("Josh", "Allen", "QB", 17, "BUF", "", FALSE, 16)

TomBradyStats == PlayerStats("Tom", "Brady", "QB", 12, "TB", "", FALSE, 17)

JoshArticle1 ==
    Article("Josh Allen leads Bills to victory", "Quarterback throws for 300 yards",
            "2024-01-15T10:00:00Z", "Full article content here...")

JoshArticle2 ==
    Article("Allen named AFC Player of the Week", "Recognition for outstanding performance",
            "2024-01-14T15:30:00Z", "More article content...")

BradyArticle ==
    Article("Brady announces retirement", "Legendary quarterback calls it a career",
            "2024-01-10T12:00:00Z", "Retirement announcement content...")

MockStatsProvider_new == [kind |-> "mock", responses |-> EmptyMap, errors |-> EmptyMap]

add_player_stats(p, n, stats) == [p EXCEPT !.responses = insert(@, n, stats)]

add_player_error(p, n, error) == [p EXCEPT !.errors = insert(@, n, error)]

add_player_not_found(p, n) == [p EXCEPT !.errors = insert(@, n, PlayerNotFound(n))]

MockStatsProvider_with_defaults ==
    add_player_stats(
        add_player_stats(MockStatsProvider_new, JoshAllenSlug, JoshAllenStats),
        TomBradySlug, TomBradyStats)

MockStatsProvider_fetch_player_stats_response_first(p, n) ==
    IF n \in DOMAIN p.responses
    THEN Ok(p.responses[n])
    ELSE Err(PlayerNotFound(n))

MockStatsProvider_fetch_player_stats_registered_error(p, n) ==
    IF n \in DOMAIN p.errors
    THEN Err(p.errors[n])
    ELSE IF n \in DOMAIN p.responses
         THEN Ok(p.responses[n])
         ELSE Err(PlayerNotFound(n))

MockStatsProvider_fetch_player_stats(p, n) ==
    IF n \in DOMAIN p.errors
    THEN Err(PlayerNotFound(n))
    ELSE IF n \in DOMAIN p.responses
         THEN Ok(p.responses[n])
         ELSE Err(PlayerNotFound(n))

\* a fetch that takes the player's entry out of the provider
MockStatsProvider_after_fetch_takes(p, n) ==
    [p EXCEPT !.responses = [k \in (DOMAIN @) \ {n} |-> @[k]]]

\* the provider after fetch_player_stats(&self, n): the maps are only read
MockStatsProvider_after_fetch(p, n) == p

MockNewsProvider_new == [kind |-> "mock", responses |-> EmptyMap, errors |-> EmptyMap]

add_news_articles(p, n, articles) == [p EXCEPT !.responses = insert(@, n, articles)]

add_news_error(p, n, error) == [p EXCEPT !.errors = insert(@, n, error)]

MockNewsProvider_with_defaults ==
    add_news_articles(
        add_news_articles(MockNewsProvider_new, JoshAllenSlug,
                          <<JoshArticle1, JoshArticle2>>),
        TomBradySlug, <<BradyArticle>>)

MockNewsProvider_fetch_player_news_unknown_fails(p, q) ==
    IF q.player_name \in DOMAIN p.errors
    THEN Err(NewsApi(500, "Mock news error"))
    ELSE IF q.player_name \in DOMAIN p.responses
         THEN Ok(p.responses[q.player_name])
         ELSE Err(PlayerNotFound(q.player_name))

MockNewsProvider_fetch_player_news(p, q) ==
    IF q.player_name \in DOMAIN p.errors
    THEN Err(NewsApi(500, "Mock news error"))
    ELSE IF q.player_name \in DOMAIN p.responses
         THEN Ok(p.responses[q.player_name])
         ELSE Ok(<<>>)

\* the provider after fetch_player_news(&self, q): the maps are only read
MockNewsProvider_after_fetch(p, q) == p

\* ------------------------------------------------------------------------
\* Configuration (src/config.rs, src/config/news_config.rs)
\* ------------------------------------------------------------------------

\* URLs are sequences of characters, so that a prefix can be tested
STATS_BASE_URL ==
    <<"h","t","t","p","s",":","/","/","a","p","i",".","m","y","s","p","o","r","t","s","f","e","e","d","s",".","c","o","m","/","v","2",".","1">>

NEWS_BASE_URL ==
    <<"h","t","t","p","s",":","/","/","n","e","w","s","a","p","i",".","o","r","g","/","v","2">>

NewsConfig_default ==
    [max_articles |-> 5, days_back |-> 7, sort_by |-> "publishedAt", language |-> "en"]

StatbookConfig_new(stats_api_key, news_api_key) ==
    [ stats_api_key |-> stats_api_key, news_api_key |-> news_api_key,
      stats_base_url |-> STATS_BASE_URL, news_base_url |-> NEWS_BASE_URL,
      news_config |-> NewsConfig_default ]

MissingApiKey(k) == [tag |-> "MissingApiKey", key |-> k]

\* str::starts_with
starts_with(s, prefix) ==
    Len(s) >= Len(prefix) /\ SubSeq(s, 1, Len(prefix)) = prefix

\* validate_api_keys accepting an empty news key
validate_api_keys_stats_only(config) ==
    IF config.stats_api_key = ""
    THEN Err(Validation("Stats API key cannot be empty"))
    ELSE Ok(<<>>)

\* StatbookConfig::validate_api_keys
validate_api_keys(config) ==
    IF config.stats_api_key = ""
    THEN Err(Validation("Stats API key cannot be empty"))
    ELSE IF config.news_api_key = ""
         THEN Err(Validation("News API key cannot be empty"))
         ELSE Ok(<<>>)

\* StatbookConfig::validate_urls
validate_urls(config) ==
    IF ~starts_with(config.stats_base_url, <<"h","t","t","p">>)
    THEN Err(Validation("Stats base URL must be a valid HTTP URL"))
    ELSE IF ~starts_with(config.news_base_url, <<"h","t","t","p">>)
         THEN Err(Validation("News base URL must be a valid HTTP URL"))
         ELSE Ok(<<>>)

\* StatbookConfig::validate
validate(config) ==
    IF IsErr(validate_api_keys(config)) THEN validate_api_keys(config)
    ELSE validate_urls(config)

\* StatbookConfig::with_news_config
with_news_config(config, news_config) == [config EXCEPT !.news_config = news_config]

\* StatbookConfig::from_env on the environment env
StatbookConfig_from_env(env) ==
    IF env.STATS_API_KEY = None THEN Err(MissingApiKey("STATS_API_KEY"))
    ELSE IF env.NEWS_API_KEY = None THEN Err(MissingApiKey("NEWS_API_KEY"))
    ELSE LET config == StatbookConfig_new(env.STATS_API_KEY.val, env.NEWS_API_KEY.val)
         IN  IF IsErr(validate(config)) THEN validate(config) ELSE Ok(config)

\* StatbookConfigBuilder::default
StatbookConfigBuilder_default ==
    [ stats_api_key |-> None, news_api_key |-> None, stats_base_url |-> None,
      news_base_url |-> None, news_config |-> None ]

\* Option::unwrap_or on an Option of the model
option_or(o, d) == IF o = None THEN d ELSE o.val

\* StatbookConfigBuilder::build
StatbookConfigBuilder_build(b) ==
    IF b.stats_api_key = None THEN Err(MissingApiKey("stats_api_key"))
    ELSE IF b.news_api_key = None THEN Err(MissingApiKey("news_api_key"))
    ELSE LET config ==
                 [ stats_api_key |-> b.stats_api_key.val,
                   news_api_key |-> b.news_api_key.val,
                   stats_base_url |-> option_or(b.stats_base_url, STATS_BASE_URL),
                   news_base_url |-> option_or(b.news_base_url, NEWS_BASE_URL),
                   news_config |-> option_or(b.news_config, NewsConfig_default) ]
         IN  IF IsErr(validate(config)) THEN validate(config) ELSE Ok(config)

\* ------------------------------------------------------------------------
\* JSON payloads as serde_json sees them.  A member of an object is absent,
\* null, or a value of some JSON type.
\* ------------------------------------------------------------------------

JAbsent == [t |-> "absent"]

JNull == [t |-> "null"]

JStr(v) == [t |-> "str", s |-> v]

JNum(v) == [t |-> "num", n |-> v]

JBool(v) == [t |-> "bool", b |-> v]

JArr(v) == [t |-> "arr", a |-> v]

JObj(v) == [t |-> "obj", v |-> v]

\* the value a string, number or boolean carries
ScalarOf(j) == IF j.t = "str" THEN j.s ELSE IF j.t = "num" THEN j.n ELSE j.b

\* a body that is not structurally valid JSON
MalformedBody == [t |-> "malformed"]

\* Option<T> under #[serde(default)]: absent and null give None
OptionOk(j, ty) == j.t \in {"absent", "null", ty}

\* Option::unwrap_or / unwrap_or_default after decoding
unwrap_or(j, d) == IF j.t \in {"absent", "null"} THEN d ELSE ScalarOf(j)

SeqsUpTo(S, n) == UNION {[1..k -> S] : k \in 0..n}

\* ------------------------------------------------------------------------
\* Remote stats provider (src/providers/stats_provider.rs) and the stats
\* schema (src/models/player_parser.rs)
\* ------------------------------------------------------------------------

STATBOOK_PASSWORD == "MYSPORTSFEEDS"

\* the HTTP status codes a server answers with in the model
HttpStatuses == {200, 204, 404, 426, 500}

\* StatusCode::is_success
is_success(status) == status >= 200 /\ status <= 299

\* the outcome of send(): a transport failure or a response with a status
NetworkFailure == [t |-> "network"]

HttpResponse(status) == [t |-> "response", status |-> status]

SendOutcomes == {NetworkFailure} \cup {HttpResponse(s) : s \in HttpStatuses}

\* the "player" object of an entry (PlayerInfo)
PlayerInfoJson(fn, ln, pos, jersey, team, inj, rk) ==
    JObj([ firstName |-> fn, lastName |-> ln, primaryPosition |-> pos,
           jerseyNumber |-> jersey, currentTeam |-> team,
           currentInjury |-> inj, rookie |-> rk ])

\* one element of playerStatsTotals (Player)
PlayerJson(player, stats) == JObj([player |-> player, stats |-> stats])

JoshEntry ==
    PlayerJson(
        PlayerInfoJson(JStr("Josh"), JStr("Allen"), JStr("QB"), JNum(17),
                       JObj([abbreviation |-> JStr("BUF")]), JNull, JBool(FALSE)),
        JObj([gamesPlayed |-> JNum(16)]))

\* {} : every member absent
EmptyEntry == PlayerJson(JAbsent, JAbsent)

\* every leaf null or absent, a rookie with no team abbreviation
SparseEntry ==
    PlayerJson(
        PlayerInfoJson(JNull, JAbsent, JNull, JAbsent,
                       JObj([abbreviation |-> JNull]), JAbsent, JBool(TRUE)),
        JObj([gamesPlayed |-> JNull]))

\* a jersey number of the wrong JSON type
IllTypedEntry ==
    PlayerJson(
        PlayerInfoJson(JStr("Tom"), JStr("Brady"), JStr("QB"), JStr("twelve"),
                       JAbsent, JAbsent, JAbsent),
        JAbsent)

PlayerEntries == {JoshEntry, EmptyEntry, SparseEntry, IllTypedEntry}

\* the top-level object of a stats response
StatsJson(players) == JObj([playerStatsTotals |-> players])

StatsBodies ==
    {MalformedBody, StatsJson(JAbsent)}
        \cup {StatsJson(JArr(l)) : l \in SeqsUpTo(PlayerEntries, MaxPlayers)}

\* TeamInfo decodes
TeamInfoOk(j) == j.t = "obj" /\ OptionOk(j.v.abbreviation, "str")

\* PlayerInfo decodes
PlayerInfoOk(j) ==
    /\ j.t = "obj"
    /\ OptionOk(j.v.firstName, "str")
    /\ OptionOk(j.v.lastName, "str")
    /\ OptionOk(j.v.primaryPosition, "str")
    /\ OptionOk(j.v.jerseyNumber, "num")
    /\ j.v.currentTeam.t \in {"absent", "null"} \/ TeamInfoOk(j.v.currentTeam)
    /\ OptionOk(j.v.currentInjury, "str")
    /\ OptionOk(j.v.rookie, "bool")

\* Statistics decodes
StatisticsOk(j) == j.t = "obj" /\ OptionOk(j.v.gamesPlayed, "num")

\* PlayerOk without #[serde(default)] on the struct members
PlayerOkRequiresMembers(j) ==
    /\ j.t = "obj"
    /\ PlayerInfoOk(j.v.player)
    /\ StatisticsOk(j.v.stats)

\* Player decodes: #[serde(default)] struct members may be absent
PlayerOk(j) ==
    /\ j.t = "obj"
    /\ j.v.player.t = "absent" \/ PlayerInfoOk(j.v.player)
    /\ j.v.stats.t = "absent" \/ StatisticsOk(j.v.stats)

\* serde_json::from_str::<PlayerResponse> succeeds
PlayerResponseOk(body) ==
    /\ body.t = "obj"
    /\ \/ body.v.playerStatsTotals.t = "absent"
       \/ /\ body.v.playerStatsTotals.t = "arr"
          /\ \A i \in 1..Len(body.v.playerStatsTotals.a) :
                PlayerOk(body.v.playerStatsTotals.a[i])

\* PlayerResponse.players
players_of(body) ==
    IF body.v.playerStatsTotals.t = "absent" THEN <<>> ELSE body.v.playerStatsTotals.a

\* a member of the PlayerInfo of an entry, absent when the entry has no "player"
info_member(entry, f) ==
    IF entry.v.player.t = "absent" THEN JAbsent ELSE entry.v.player.v[f]

\* the PlayerStats built from one decoded entry
stats_of_entry(entry) ==
    PlayerStats(
        unwrap_or(info_member(entry, "firstName"), ""),
        unwrap_or(info_member(entry, "lastName"), ""),
        unwrap_or(info_member(entry, "primaryPosition"), ""),
        unwrap_or(info_member(entry, "jerseyNumber"), 0),
        IF info_member(entry, "currentTeam").t \in {"absent", "null"}
        THEN ""
        ELSE unwrap_or(info_member(entry, "currentTeam").v.abbreviation, ""),
        unwrap_or(info_member(entry, "currentInjury"), ""),
        unwrap_or(info_member(entry, "rookie"), FALSE),
        IF entry.v.stats.t = "absent" THEN 0
        ELSE unwrap_or(entry.v.stats.v.gamesPlayed, 0))

\* the request fetch_player_stats sends
MySportsStatsProvider_request(config, n) ==
    [ url |-> <<config.stats_base_url, "/pull/nfl/latest/player_stats_totals.json">>,
      authorization |-> <<"Basic", <<"base64", config.stats_api_key, ":", STATBOOK_PASSWORD>> >>,
      query |-> <<"player", n>> ]

\* MySportsStatsProvider_on_response with a 404 reported as a missing player
MySportsStatsProvider_on_response_404_not_found(n, r) ==
    IF r.t = "network"
    THEN [st |-> "done", out |-> Err(Network)]
    ELSE IF r.status = 404
         THEN [st |-> "done", out |-> Err(PlayerNotFound(n))]
         ELSE IF ~is_success(r.status)
              THEN [st |-> "done",
                    out |-> Err(StatsApi(r.status, <<"Failed to fetch player stats for", n>>))]
              ELSE [st |-> "text"]

\* fetch_player_stats once send() has settled with r: the stage it moves to
MySportsStatsProvider_on_response(n, r) ==
    IF r.t = "network"
    THEN [st |-> "done", out |-> Err(Network)]
    ELSE IF ~is_success(r.status)
         THEN [st |-> "done",
               out |-> Err(StatsApi(r.status, <<"Failed to fetch player stats for", n>>))]
         ELSE [st |-> "text"]

\* MySportsStatsProvider_on_body reading the last entry instead of the first
MySportsStatsProvider_on_body_last(n, b) ==
    IF b.t = "network" THEN Err(Network)
    ELSE IF ~PlayerResponseOk(b) THEN Err(JsonParse)
    ELSE IF players_of(b) = <<>> THEN Err(PlayerNotFound(n))
    ELSE Ok(stats_of_entry(players_of(b)[Len(players_of(b))]))

\* fetch_player_stats once text() has settled with body b: its result
MySportsStatsProvider_on_body(n, b) ==
    IF b.t = "network" THEN Err(Network)
    ELSE IF ~PlayerResponseOk(b) THEN Err(JsonParse)
    ELSE IF players_of(b) = <<>> THEN Err(PlayerNotFound(n))
    ELSE Ok(stats_of_entry(players_of(b)[1]))

\* ------------------------------------------------------------------------
\* Remote news provider (src/providers/news_provider.rs) and the news
\* schema (src/models/news_parser.rs)
\* ------------------------------------------------------------------------

ArticleJson(t, d, p, c) ==
    JObj([title |-> t, description |-> d, publishedAt |-> p, content |-> c])

FullArticleEntry ==
    ArticleJson(JStr("Josh Allen leads Bills to victory"),
                JStr("Quarterback throws for 300 yards"),
                JStr("2024-01-15T10:00:00Z"), JStr("Full article content here..."))

SparseArticleEntry == ArticleJson(JAbsent, JNull, JAbsent, JStr("[Removed]"))

IllTypedArticleEntry == ArticleJson(JNum(1), JAbsent, JAbsent, JAbsent)

ArticleEntries == {FullArticleEntry, SparseArticleEntry, IllTypedArticleEntry}

\* the top-level object of a news response
NewsJson(status, total, articles) ==
    JObj([status |-> status, totalResults |-> total, articles |-> articles])

NewsBodies ==
    {MalformedBody, NewsJson(JStr("ok"), JNum(0), JAbsent),
     NewsJson(JAbsent, JAbsent, JArr(<<>>))}
        \cup {NewsJson(JStr("ok"), JNum(Len(l)), JArr(l)) :
                l \in SeqsUpTo(ArticleEntries, MaxArticles)}

\* ArticleOk without #[serde(default)] on title
ArticleOkRequiresTitle(j) ==
    /\ j.t = "obj"
    /\ j.v.title.t = "str"
    /\ OptionOk(j.v.description, "str")
    /\ OptionOk(j.v.publishedAt, "str")
    /\ OptionOk(j.v.content, "str")

\* news_parser::Article decodes
ArticleOk(j) ==
    /\ j.t = "obj"
    /\ OptionOk(j.v.title, "str")
    /\ OptionOk(j.v.description, "str")
    /\ OptionOk(j.v.publishedAt, "str")
    /\ OptionOk(j.v.content, "str")

\* serde_json::from_str::<NewsResponse> succeeds: status, totalResults and
\* articles carry no #[serde(default)], so all three are required
NewsResponseOk(body) ==
    /\ body.t = "obj"
    /\ body.v.status.t = "str"
    /\ body.v.totalResults.t = "num"
    /\ body.v.articles.t = "arr"
    /\ \A i \in 1..Len(body.v.articles.a) : ArticleOk(body.v.articles.a[i])

\* the domain Article built from one decoded article
article_of_entry(a) ==
    Article(unwrap_or(a.v.title, ""), unwrap_or(a.v.description, ""),
            unwrap_or(a.v.publishedAt, ""), unwrap_or(a.v.content, ""))

\* query_params with the from parameter pushed unconditionally
query_params_always_from(config, q) ==
    << <<"q", q.player_name>>, <<"pageSize", q.page_size>>,
       <<"sortBy", q.sort_by>>, <<"apiKey", config.news_api_key>>,
       <<"from", q.from_date>> >>

query_params_tuned(config, q) ==
    << <<"q", q.player_name>>, <<"pageSize", config.news_config.max_articles>>,
       <<"sortBy", config.news_config.sort_by>>, <<"apiKey", config.news_api_key>>,
       <<"language", config.news_config.language>> >>
        \o (IF q.from_date # "" THEN << <<"from", q.from_date>> >> ELSE <<>>)

\* the query parameters fetch_player_news sends, in order
query_params(config, q) ==
    << <<"q", q.player_name>>, <<"pageSize", q.page_size>>,
       <<"sortBy", q.sort_by>>, <<"apiKey", config.news_api_key>> >>
        \o (IF q.from_date # "" THEN << <<"from", q.from_date>> >> ELSE <<>>)

\* the request fetch_player_news sends
NewsApiProvider_request(config, q) ==
    [ url |-> <<config.news_base_url, "/everything">>,
      user_agent |-> "FantasyFootballApp/1.0",
      query |-> query_params(config, q) ]

\* fetch_player_news once send() has settled with r: the stage it moves to
NewsApiProvider_on_response(q, r) ==
    IF r.t = "network"
    THEN [st |-> "done", out |-> Err(Network)]
    ELSE IF ~is_success(r.status)
         THEN [st |-> "done",
               out |-> Err(NewsApi(r.status, <<"Failed to fetch news for", q.player_name>>))]
         ELSE [st |-> "text"]

\* NewsApiProvider_on_body with an empty article list reported as a missing
\* player, as the stats provider does
NewsApiProvider_on_body_empty_is_error(q, b) ==
    IF b.t = "network" THEN Err(Network)
    ELSE IF ~NewsResponseOk(b) THEN Err(JsonParse)
    ELSE IF b.v.articles.a = <<>> THEN Err(PlayerNotFound(q.player_name))
    ELSE Ok([i \in 1..Len(b.v.articles.a) |-> article_of_entry(b.v.articles.a[i])])

\* NewsApiProvider_on_body with an undecodable body read as no coverage
NewsApiProvider_on_body_lenient(q, b) ==
    IF b.t = "network" THEN Err(Network)
    ELSE IF ~NewsResponseOk(b) THEN Ok(<<>>)
    ELSE Ok([i \in 1..Len(b.v.articles.a) |-> article_of_entry(b.v.articles.a[i])])

\* fetch_player_news once text() has settled with body b: its result
NewsApiProvider_on_body(q, b) ==
    IF b.t = "network" THEN Err(Network)
    ELSE IF ~NewsResponseOk(b) THEN Err(JsonParse)
    ELSE Ok([i \in 1..Len(b.v.articles.a) |-> article_of_entry(b.v.articles.a[i])])

\* ------------------------------------------------------------------------
\* The client and one call of its API: get_player_stats, get_player_news or
\* get_player_summary (src/client.rs, src/api/players.rs)
\* ------------------------------------------------------------------------

VARIABLES
    stats_provider,  \* StatbookClient.stats_provider
    news_provider,   \* StatbookClient.news_provider
    api,             \* the function that was called
    pc,              \* where the call stands
    name,            \* get_player_summary's argument name
    strategy,        \* get_player_summary's argument strategy
    dash_name,       \* the local dash_name
    query,           \* the local query
    stats_fut,       \* the future of fetch_player_stats
    news_fut,        \* the future of fetch_player_news
    stats_calls,     \* invocations of fetch_player_stats by this call
    news_calls,      \* invocations of fetch_player_news by this call
    stats_http,      \* the HTTP exchange of the stats request of this call
    news_http,       \* the HTTP exchange of the news request of this call
    ret,             \* what the call returned
    slug_x,          \* a string handed to to_dash_case
    slug_y,          \* a case and whitespace variant of slug_x
    slug_fx,         \* to_dash_case(slug_x) once computed
    slug_ffx,        \* to_dash_case(to_dash_case(slug_x)) once computed
    slug_fy,         \* to_dash_case(slug_y) once computed
    calls,           \* the calls that run concurrently on one client
    builder,         \* the StatbookConfigBuilder being filled in
    env,             \* the environment variables of the process
    built,           \* the outcome of the last configuration construction
    statbook_client, \* the client StatbookClient::new constructed, if any
    mock_log,        \* the registrations made on the mock providers, in order
    mock_ret         \* the last fetch made on a mock provider under construction

\* the variables of one call on the client
call_vars == <<api, pc, name, strategy, dash_name, query, stats_fut, news_fut,
               stats_calls, news_calls, stats_http, news_http, ret>>

\* the variables of the slug normalizer taken alone
slug_vars == <<slug_x, slug_y, slug_fx, slug_ffx, slug_fy>>

\* the variables of concurrent calls on a shared client
conc_vars == <<calls>>

\* the variables of configuration and client construction
config_vars == <<builder, env, built, statbook_client>>

\* the variables of a mock provider under construction
mock_vars == <<mock_log, mock_ret>>

vars == <<stats_provider, news_provider, call_vars, slug_vars, conc_vars,
          config_vars, mock_vars>>

\* StatbookClient::new builds both remote providers from one configuration
RemoteProvider(config) == [kind |-> "remote", config |-> config]

DefaultConfig == StatbookConfig_new("stats-key", "news-key")

\* the stats providers a client is built with
StatsProviders ==
    { MockStatsProvider_with_defaults,
      add_player_error(MockStatsProvider_with_defaults, JoshAllenSlug,
                       StatsApi(500, "forced")),
      add_player_not_found(MockStatsProvider_with_defaults, TomBradySlug),
      RemoteProvider(DefaultConfig) }

\* the news providers a client is built with
NewsProviders ==
    { MockNewsProvider_with_defaults,
      add_news_error(MockNewsProvider_with_defaults, JoshAllenSlug,
                     NewsApi(429, "forced")),
      RemoteProvider(DefaultConfig) }

NoFuture == [st |-> "none"]

Done(out) == [st |-> "done", out |-> out]

\* the result a settled future holds
OutOf(fut) == IF fut.st = "done" THEN fut.out ELSE None

\* get_player_summary_concurrent up to the join: it normalizes the name it is
\* given once more and builds the news query from the slug
Concurrent(n) ==
    LET dn == to_dash_case(n)
    IN  [pc |-> "join_stats", dash_name |-> dn, query |-> for_player(dn)]

\* Arm with the StatsOnly arm falling through to the concurrent fetch
ArmStatsOnlyFetchesBoth(n, s) ==
    LET dn == to_dash_case(n)
    IN  IF s.tag = "NewsOnly"
        THEN [pc |-> "news_only", dash_name |-> dn, query |-> for_player(dn)]
        ELSE Concurrent(dn)

\* Arm with the NewsOnly arm falling through to the concurrent fetch
ArmNewsOnlyFetchesBoth(n, s) ==
    LET dn == to_dash_case(n)
    IN  IF s.tag = "StatsOnly"
        THEN [pc |-> "stats_only", dash_name |-> dn, query |-> None]
        ELSE Concurrent(dn)

\* get_player_summary up to its first provider call: the name is normalized
\* and the strategy picks the arm, which fixes the locals the arm uses
Arm(n, s) ==
    LET dn == to_dash_case(n)
    IN  IF s.tag = "StatsOnly"
        THEN [pc |-> "stats_only", dash_name |-> dn, query |-> None]
        ELSE IF s.tag = "NewsOnly"
             THEN [pc |-> "news_only", dash_name |-> dn, query |-> for_player(dn)]
             ELSE Concurrent(dn)

\* first poll of fetch_player_stats: a mock settles at once, the remote
\* provider sends its request and waits
StartStats(p, n) ==
    IF p.kind = "mock"
    THEN Done(MockStatsProvider_fetch_player_stats(p, n))
    ELSE [st |-> "send", req |-> MySportsStatsProvider_request(p.config, n)]

\* first poll of fetch_player_news
StartNews(p, q) ==
    IF p.kind = "mock"
    THEN Done(MockNewsProvider_fetch_player_news(p, q))
    ELSE [st |-> "send", req |-> NewsApiProvider_request(p.config, q)]

\* the placeholder the NewsOnly arm returns as player_stats
ZeroStats == PlayerStats("", "", "", 0, "", "", FALSE, 0)

\* StatsOnlyResult with a stats failure swallowed into an empty success
StatsOnlyResultSwallows(stats_result) ==
    IF IsErr(stats_result) THEN Ok(PlayerSummaryResult(ZeroStats, Ok(<<>>)))
    ELSE Ok(PlayerSummaryResult(stats_result.val, Ok(<<>>)))

\* the StatsOnly arm once the stats future has settled
StatsOnlyResult(stats_result) ==
    IF IsErr(stats_result) THEN Err(stats_result.err)
    ELSE Ok(PlayerSummaryResult(stats_result.val, Ok(<<>>)))

\* NewsOnlyResult with the news outcome captured as data, as Both does
NewsOnlyResultCaptures(news_result) ==
    Ok(PlayerSummaryResult(ZeroStats, news_result))

\* NewsOnlyResult with the provider's error replaced by a generic one
NewsOnlyResultRewraps(news_result) ==
    IF IsErr(news_result) THEN Err(NewsApi(500, "news fetch failed"))
    ELSE Ok(PlayerSummaryResult(ZeroStats, Ok(news_result.val)))

\* the NewsOnly arm once the news future has settled
NewsOnlyResult(news_result) ==
    IF IsErr(news_result) THEN Err(news_result.err)
    ELSE Ok(PlayerSummaryResult(ZeroStats, Ok(news_result.val)))

\* ConcurrentResult with the news error always propagated
ConcurrentResultStrict(stats_result, news_result, fail_on_news_error) ==
    IF IsErr(stats_result) THEN Err(stats_result.err)
    ELSE IF IsErr(news_result) THEN Err(news_result.err)
    ELSE Ok(PlayerSummaryResult(stats_result.val, Ok(news_result.val)))

\* ConcurrentResult with the test of fail_on_news_error inverted
ConcurrentResultInverted(stats_result, news_result, fail_on_news_error) ==
    IF IsErr(stats_result) THEN Err(stats_result.err)
    ELSE IF ~fail_on_news_error
         THEN IF IsErr(news_result) THEN Err(news_result.err)
              ELSE Ok(PlayerSummaryResult(stats_result.val, Ok(news_result.val)))
         ELSE Ok(PlayerSummaryResult(stats_result.val, news_result))

\* ConcurrentResult with the news outcome always captured as data
ConcurrentResultLenient(stats_result, news_result, fail_on_news_error) ==
    IF IsErr(stats_result) THEN Err(stats_result.err)
    ELSE Ok(PlayerSummaryResult(stats_result.val, news_result))

\* ConcurrentResult with the news result unwrapped before the stats result
ConcurrentResultNewsFirst(stats_result, news_result, fail_on_news_error) ==
    IF fail_on_news_error /\ IsErr(news_result) THEN Err(news_result.err)
    ELSE IF IsErr(stats_result) THEN Err(stats_result.err)
    ELSE IF fail_on_news_error
         THEN Ok(PlayerSummaryResult(stats_result.val, Ok(news_result.val)))
         ELSE Ok(PlayerSummaryResult(stats_result.val, news_result))

\* get_player_summary_concurrent after the join
ConcurrentResult(stats_result, news_result, fail_on_news_error) ==
    IF IsErr(stats_result) THEN Err(stats_result.err)
    ELSE IF fail_on_news_error
         THEN IF IsErr(news_result) THEN Err(news_result.err)
              ELSE Ok(PlayerSummaryResult(stats_result.val, Ok(news_result.val)))
         ELSE Ok(PlayerSummaryResult(stats_result.val, news_result))

\* NewsPolledWith for sequential awaits: news starts once stats has settled
NewsPolledAfterStats(sf) == sf.st = "done"

\* tokio::join! polls the news future in the same pass as the stats future,
\* whatever state the stats future is in
NewsPolledWith(sf) == TRUE

\* JoinReady for a try_join: a failed stats branch completes the join alone
JoinReadyShortCircuit(sf, nf) ==
    sf.st = "done" /\ (IsErr(sf.out) \/ nf.st = "done")

JoinReadyOnSuccess(sf, nf) ==
    sf.st = "done" /\ nf.st = "done" /\ IsOk(sf.out) /\ IsOk(nf.out)

\* tokio::join! completes when every branch has completed
JoinReady(sf, nf) == sf.st = "done" /\ nf.st = "done"

\* the call's task is parked on an await, so a settled request resumes it
Suspended ==
    \/ pc \in {"get_stats_await", "get_news_await", "stats_only_await",
              "news_only_await", "join_wait"}
    \/ pc = "join_news" /\ ~NewsPolledWith(stats_fut)

\* the HTTP exchange of a request: what was sent, the response and the body
NoHttp == [req |-> None, resp |-> None, body |-> None]

\* the exchange a future opens with its first poll: a mock sends nothing
Sent(fut) ==
    IF fut.st = "send" THEN [req |-> fut.req, resp |-> None, body |-> None]
    ELSE NoHttp

\* NewsQuery::with_page_size
with_page_size(q, size) == [q EXCEPT !.page_size = size]

\* NewsQuery::with_date_range
with_date_range(q, from_date) == [q EXCEPT !.from_date = from_date]

\* the queries a caller passes to get_player_news
CallQueries ==
    UNION { { for_player(n),
              with_date_range(for_player(n), "2024-01-01"),
              with_page_size(with_date_range(for_player(n), "2024-01-01"), 10) }
            : n \in { JoshAllenSlug, <<"J","o","s","h"," ","A","l","l","e","n">>, <<>> } }

\* no call is in progress
IdleCall ==
    /\ api = "none"
    /\ pc = "idle"
    /\ name = <<>>
    /\ strategy = None
    /\ dash_name = <<>>
    /\ query = None
    /\ stats_fut = NoFuture
    /\ news_fut = NoFuture
    /\ stats_calls = 0
    /\ news_calls = 0
    /\ stats_http = NoHttp
    /\ news_http = NoHttp
    /\ ret = None

\* the slug normalizer is not exercised
IdleSlug ==
    /\ slug_x = <<>>
    /\ slug_y = <<>>
    /\ slug_fx = None
    /\ slug_ffx = None
    /\ slug_fy = None

\* no configuration is under construction
IdleConfig ==
    /\ builder = StatbookConfigBuilder_default
    /\ env = [STATS_API_KEY |-> None, NEWS_API_KEY |-> None]
    /\ built = None
    /\ statbook_client = None

\* no mock provider is under construction
IdleMock ==
    /\ mock_log = <<>>
    /\ mock_ret = None

Init ==
    /\ stats_provider \in StatsProviders
    /\ news_provider \in NewsProviders
    /\ IdleCall
    /\ IdleSlug
    /\ calls = <<>>
    /\ IdleConfig
    /\ IdleMock

\* get_player_stats is called: the name is normalized and the stats future
\* is created and polled
GetPlayerStats(n) ==
    /\ pc = "idle"
    /\ api' = "get_player_stats"
    /\ name' = n
    /\ dash_name' = to_dash_case(n)
    /\ stats_fut' = StartStats(stats_provider, to_dash_case(n))
    /\ stats_http' = Sent(stats_fut')
    /\ stats_calls' = 1
    /\ pc' = "get_stats_await"
    /\ UNCHANGED <<stats_provider, news_provider, strategy, query, news_fut,
                   news_calls, news_http, ret>>
    /\ UNCHANGED <<slug_vars, conc_vars, config_vars, mock_vars>>

\* get_player_stats returns what the stats future settled with
GetPlayerStatsReturn ==
    /\ pc = "get_stats_await"
    /\ stats_fut.st = "done"
    /\ ret' = stats_fut.out
    /\ pc' = "done"
    /\ UNCHANGED <<stats_provider, news_provider, api, name, strategy, dash_name,
                   query, stats_fut, news_fut, stats_calls, news_calls,
                   stats_http, news_http>>
    /\ UNCHANGED <<slug_vars, conc_vars, config_vars, mock_vars>>

\* get_player_news is called: the caller's query is handed to the news
\* provider as it is and the news future is created and polled
GetPlayerNews(q) ==
    /\ pc = "idle"
    /\ api' = "get_player_news"
    /\ query' = q
    /\ news_fut' = StartNews(news_provider, q)
    /\ news_http' = Sent(news_fut')
    /\ news_calls' = 1
    /\ pc' = "get_news_await"
    /\ UNCHANGED <<stats_provider, news_provider, name, strategy, dash_name,
                   stats_fut, stats_calls, stats_http, ret>>
    /\ UNCHANGED <<slug_vars, conc_vars, config_vars, mock_vars>>

\* get_player_news returns what the news future settled with
GetPlayerNewsReturn ==
    /\ pc = "get_news_await"
    /\ news_fut.st = "done"
    /\ ret' = news_fut.out
    /\ pc' = "done"
    /\ UNCHANGED <<stats_provider, news_provider, api, name, strategy, dash_name,
                   query, stats_fut, news_fut, stats_calls, news_calls,
                   stats_http, news_http>>
    /\ UNCHANGED <<slug_vars, conc_vars, config_vars, mock_vars>>

\* get_player_summary is called: normalize the name and match the strategy
GetPlayerSummary(n, s) ==
    /\ pc = "idle"
    /\ api' = "get_player_summary"
    /\ name' = n
    /\ strategy' = s
    /\ dash_name' = Arm(n, s).dash_name
    /\ query' = Arm(n, s).query
    /\ pc' = Arm(n, s).pc
    /\ UNCHANGED <<stats_provider, news_provider, stats_fut, news_fut,
                   stats_calls, news_calls, stats_http, news_http, ret>>
    /\ UNCHANGED <<slug_vars, conc_vars, config_vars, mock_vars>>

\* StatsOnly: fetch_player_stats(&dash_name) is invoked and awaited
StatsOnlyFetch ==
    /\ pc = "stats_only"
    /\ stats_fut' = StartStats(stats_provider, dash_name)
    /\ stats_http' = Sent(stats_fut')
    /\ stats_calls' = stats_calls + 1
    /\ pc' = "stats_only_await"
    /\ UNCHANGED <<stats_provider, news_provider, api, name, strategy, dash_name,
                   query, news_fut, news_calls, news_http, ret>>
    /\ UNCHANGED <<slug_vars, conc_vars, config_vars, mock_vars>>

\* StatsOnly: the await resumes with the stats result
StatsOnlyReturn ==
    /\ pc = "stats_only_await"
    /\ stats_fut.st = "done"
    /\ ret' = StatsOnlyResult(stats_fut.out)
    /\ pc' = "done"
    /\ UNCHANGED <<stats_provider, news_provider, api, name, strategy, dash_name,
                   query, stats_fut, news_fut, stats_calls, news_calls,
                   stats_http, news_http>>
    /\ UNCHANGED <<slug_vars, conc_vars, config_vars, mock_vars>>

\* NewsOnly: fetch_player_news(&query) is invoked and awaited
NewsOnlyFetch ==
    /\ pc = "news_only"
    /\ news_fut' = StartNews(news_provider, query)
    /\ news_http' = Sent(news_fut')
    /\ news_calls' = news_calls + 1
    /\ pc' = "news_only_await"
    /\ UNCHANGED <<stats_provider, news_provider, api, name, strategy, dash_name,
                   query, stats_fut, stats_calls, stats_http, ret>>
    /\ UNCHANGED <<slug_vars, conc_vars, config_vars, mock_vars>>

\* NewsOnly: the await resumes with the news result
NewsOnlyReturn ==
    /\ pc = "news_only_await"
    /\ news_fut.st = "done"
    /\ ret' = NewsOnlyResult(news_fut.out)
    /\ pc' = "done"
    /\ UNCHANGED <<stats_provider, news_provider, api, name, strategy, dash_name,
                   query, stats_fut, news_fut, stats_calls, news_calls,
                   stats_http, news_http>>
    /\ UNCHANGED <<slug_vars, conc_vars, config_vars, mock_vars>>

\* Both: the first poll of the join polls the stats future
JoinPollStats ==
    /\ pc = "join_stats"
    /\ stats_fut' = StartStats(stats_provider, dash_name)
    /\ stats_http' = Sent(stats_fut')
    /\ stats_calls' = stats_calls + 1
    /\ pc' = "join_news"
    /\ UNCHANGED <<stats_provider, news_provider, api, name, strategy, dash_name,
                   query, news_fut, news_calls, news_http, ret>>
    /\ UNCHANGED <<slug_vars, conc_vars, config_vars, mock_vars>>

\* Both: the first poll of the join polls the news future
JoinPollNews ==
    /\ pc = "join_news"
    /\ NewsPolledWith(stats_fut)
    /\ news_fut' = StartNews(news_provider, query)
    /\ news_http' = Sent(news_fut')
    /\ news_calls' = news_calls + 1
    /\ pc' = "join_wait"
    /\ UNCHANGED <<stats_provider, news_provider, api, name, strategy, dash_name,
                   query, stats_fut, stats_calls, stats_http, ret>>
    /\ UNCHANGED <<slug_vars, conc_vars, config_vars, mock_vars>>

\* Both: the join completes and the results are merged
JoinReturn ==
    /\ pc = "join_wait"
    /\ JoinReady(stats_fut, news_fut)
    /\ ret' = ConcurrentResult(OutOf(stats_fut), OutOf(news_fut),
                               strategy.fail_on_news_error)
    /\ pc' = "done"
    /\ UNCHANGED <<stats_provider, news_provider, api, name, strategy, dash_name,
                   query, stats_fut, news_fut, stats_calls, news_calls,
                   stats_http, news_http>>
    /\ UNCHANGED <<slug_vars, conc_vars, config_vars, mock_vars>>

\* the stats request's send() settles and the parked task polls the future
StatsResponse(r) ==
    /\ Suspended
    /\ stats_fut.st = "send"
    /\ stats_fut' = MySportsStatsProvider_on_response(dash_name, r)
    /\ stats_http' = [stats_http EXCEPT !.resp = r]
    /\ UNCHANGED <<stats_provider, news_provider, api, pc, name, strategy,
                   dash_name, query, news_fut, stats_calls, news_calls,
                   news_http, ret>>
    /\ UNCHANGED <<slug_vars, conc_vars, config_vars, mock_vars>>

\* the stats response's text() settles and the parked task polls the future
StatsBody(b) ==
    /\ Suspended
    /\ stats_fut.st = "text"
    /\ stats_fut' = Done(MySportsStatsProvider_on_body(dash_name, b))
    /\ stats_http' = [stats_http EXCEPT !.body = b]
    /\ UNCHANGED <<stats_provider, news_provider, api, pc, name, strategy,
                   dash_name, query, news_fut, stats_calls, news_calls,
                   news_http, ret>>
    /\ UNCHANGED <<slug_vars, conc_vars, config_vars, mock_vars>>

\* the news request's send() settles and the parked task polls the future
NewsResponse(r) ==
    /\ Suspended
    /\ news_fut.st = "send"
    /\ news_fut' = NewsApiProvider_on_response(query, r)
    /\ news_http' = [news_http EXCEPT !.resp = r]
    /\ UNCHANGED <<stats_provider, news_provider, api, pc, name, strategy,
                   dash_name, query, stats_fut, stats_calls, news_calls,
                   stats_http, ret>>
    /\ UNCHANGED <<slug_vars, conc_vars, config_vars, mock_vars>>

\* the news response's text() settles and the parked task polls the future
NewsBody(b) ==
    /\ Suspended
    /\ news_fut.st = "text"
    /\ news_fut' = Done(NewsApiProvider_on_body(query, b))
    /\ news_http' = [news_http EXCEPT !.body = b]
    /\ UNCHANGED <<stats_provider, news_provider, api, pc, name, strategy,
                   dash_name, query, stats_fut, stats_calls, news_calls,
                   stats_http, ret>>
    /\ UNCHANGED <<slug_vars, conc_vars, config_vars, mock_vars>>

\* the caller takes the result; the client is ready for the next call
Return ==
    /\ pc = "done"
    /\ api' = "none"
    /\ pc' = "idle"
    /\ name' = <<>>
    /\ strategy' = None
    /\ dash_name' = <<>>
    /\ query' = None
    /\ stats_fut' = NoFuture
    /\ news_fut' = NoFuture
    /\ stats_calls' = 0
    /\ news_calls' = 0
    /\ stats_http' = NoHttp
    /\ news_http' = NoHttp
    /\ ret' = None
    /\ UNCHANGED <<stats_provider, news_provider>>
    /\ UNCHANGED <<slug_vars, conc_vars, config_vars, mock_vars>>

Next ==
    \/ \E n \in CallNames : GetPlayerStats(n)
    \/ GetPlayerStatsReturn
    \/ \E q \in CallQueries : GetPlayerNews(q)
    \/ GetPlayerNewsReturn
    \/ \E n \in CallNames, s \in FetchStrategy : GetPlayerSummary(n, s)
    \/ StatsOnlyFetch
    \/ StatsOnlyReturn
    \/ NewsOnlyFetch
    \/ NewsOnlyReturn
    \/ JoinPollStats
    \/ JoinPollNews
    \/ JoinReturn
    \/ \E r \in SendOutcomes : StatsResponse(r)
    \/ \E b \in {NetworkFailure} \cup StatsBodies : StatsBody(b)
    \/ \E r \in SendOutcomes : NewsResponse(r)
    \/ \E b \in {NetworkFailure} \cup NewsBodies : NewsBody(b)
    \/ Return

Spec == Init /\ [][Next]_vars

\* every branch of a call that was issued eventually settles and the task is
\* scheduled: the fairness the runtime and the network provide
FairSpec == Spec /\ WF_vars(Next)

TypeOK ==
    /\ api \in {"none", "get_player_stats", "get_player_news", "get_player_summary"}
    /\ pc \in {"idle", "get_stats_await", "get_news_await", "stats_only",
               "stats_only_await", "news_only", "news_only_await", "join_stats",
               "join_news", "join_wait", "done"}
    /\ stats_fut.st \in {"none", "send", "text", "done"}
    /\ news_fut.st \in {"none", "send", "text", "done"}
    /\ stats_calls \in 0..2
    /\ news_calls \in 0..2
    /\ ret.tag \in {"None", "Ok", "Err"}

\* ------------------------------------------------------------------------
\* Properties of get_player_summary
\* ------------------------------------------------------------------------

\* the call has returned under Both
ReturnedBoth == pc = "done" /\ strategy.tag = "Both"

\* C1: under Both{fail_on_news_error = false}, when the stats provider
\* succeeded and the news provider failed, the call returns Ok, player_stats
\* is exactly what the stats provider returned and news_result is an Err.
C1_PartialFailureIsData ==
    (/\ pc = "done"
     /\ strategy = Both(FALSE)
     /\ IsOk(stats_fut.out)
     /\ IsErr(news_fut.out))
    => /\ IsOk(ret)
       /\ ret.val.player_stats = stats_fut.out.val
       /\ IsErr(ret.val.news_result)

C1_Witness ==
    /\ pc = "done"
    /\ strategy = Both(FALSE)
    /\ IsOk(stats_fut.out)
    /\ IsErr(news_fut.out)
    /\ IsOk(ret)
    /\ ret.val.player_stats = JoshAllenStats

\* C2: under Both{fail_on_news_error = true}, when the news provider failed
\* the call fails, and when the stats provider succeeded the error is the
\* news error; no PlayerSummaryResult is returned.
C2_StrictNewsFailureFails ==
    (/\ pc = "done"
     /\ strategy = Both(TRUE)
     /\ IsErr(news_fut.out))
    => /\ IsErr(ret)
       /\ IsOk(stats_fut.out) => ret = Err(news_fut.out.err)

C2_Witness ==
    /\ pc = "done"
    /\ strategy = Both(TRUE)
    /\ IsOk(stats_fut.out)
    /\ IsErr(news_fut.out)
    /\ IsErr(ret)

\* C3: under Both, for either fail_on_news_error and any news outcome, a
\* stats failure fails the call with the stats error, also when the news
\* provider failed too.
C3_StatsFailureIsFatal ==
    (ReturnedBoth /\ IsErr(stats_fut.out)) => ret = Err(stats_fut.out.err)

C3_Witness ==
    /\ ReturnedBoth
    /\ strategy.fail_on_news_error
    /\ IsErr(stats_fut.out)
    /\ IsErr(news_fut.out)
    /\ stats_fut.out.err # news_fut.out.err
    /\ IsErr(ret)

\* C4: under StatsOnly the news provider is never invoked and under NewsOnly
\* the stats provider is never invoked, whatever the invoked provider does.
C4_OnlyNamedProviderInvoked ==
    /\ strategy = StatsOnly => news_calls = 0 /\ news_fut = NoFuture
    /\ strategy = NewsOnly => stats_calls = 0 /\ stats_fut = NoFuture

C4_Witness ==
    /\ pc = "done"
    /\ strategy = StatsOnly
    /\ stats_calls = 1
    /\ IsErr(ret)

\* C5: under Both, whenever the call is parked on an await both fetches have
\* been started, and the step after the stats fetch was started starts the
\* news fetch without the stats fetch having moved.
C5_BothDispatchedBeforeAwait ==
    /\ [](strategy.tag = "Both" /\ Suspended
            => stats_fut.st # "none" /\ news_fut.st # "none")
    /\ [][pc = "join_news" => news_fut'.st # "none" /\ stats_fut' = stats_fut]_vars

C5_Witness ==
    /\ pc = "join_wait"
    /\ stats_fut.st = "send"
    /\ news_fut.st = "send"

\* C6: under Both, a result exists only once both branches have settled, for
\* both values of fail_on_news_error and also when the stats branch failed
\* first.
C6_ResultOnlyAfterBothSettle ==
    (strategy.tag = "Both" /\ (ret # None \/ pc = "done"))
    => stats_fut.st = "done" /\ news_fut.st = "done"

C6_Witness ==
    /\ pc = "join_wait"
    /\ strategy = Both(TRUE)
    /\ IsErr(OutOf(stats_fut))
    /\ news_fut.st = "text"
    /\ ret = None

\* the times a strategy has each provider invoked
StatsUses(s) == IF s.tag \in {"StatsOnly", "Both"} THEN 1 ELSE 0

NewsUses(s) == IF s.tag \in {"NewsOnly", "Both"} THEN 1 ELSE 0

\* C7: a call invokes each provider its strategy uses exactly once and the
\* other provider not at all; a failed provider call is not repeated.
C7_SingleAttempt ==
    /\ stats_calls <= 1
    /\ news_calls <= 1
    /\ (pc = "done" /\ api = "get_player_summary")
          => /\ stats_calls = StatsUses(strategy)
             /\ news_calls = NewsUses(strategy)

C7_Witness ==
    /\ ReturnedBoth
    /\ IsErr(stats_fut.out)
    /\ IsErr(news_fut.out)
    /\ stats_calls = 1
    /\ news_calls = 1

\* C8: under StatsOnly a stats success gives exactly the provider's stats with
\* news_result a success holding no article, and a stats failure fails the
\* call.
C8_StatsOnlyResult ==
    (pc = "done" /\ strategy = StatsOnly)
    => /\ IsOk(stats_fut.out)
          => ret = Ok(PlayerSummaryResult(stats_fut.out.val, Ok(<<>>)))
       /\ IsErr(stats_fut.out) => IsErr(ret)

C8_Witness ==
    /\ pc = "done"
    /\ strategy = StatsOnly
    /\ IsOk(stats_fut.out)
    /\ IsOk(ret)
    /\ ret.val.player_stats.first_name = "Josh"

\* C9: under NewsOnly a news success gives exactly the provider's articles
\* with every field of player_stats at its zero value, and a news failure
\* fails the call.
C9_NewsOnlyResult ==
    (pc = "done" /\ strategy = NewsOnly)
    => /\ IsOk(news_fut.out)
          => /\ IsOk(ret)
             /\ ret.val.news_result = Ok(news_fut.out.val)
             /\ ret.val.player_stats =
                    [ first_name |-> "", last_name |-> "", primary_position |-> "",
                      jersey_number |-> 0, current_team |-> "", injury |-> "",
                      rookie |-> FALSE, games_played |-> 0 ]
       /\ IsErr(news_fut.out) => IsErr(ret)

C9_Witness ==
    /\ pc = "done"
    /\ strategy = NewsOnly
    /\ IsOk(news_fut.out)
    /\ Len(news_fut.out.val) = 2
    /\ IsOk(ret)

\* C10: a successful result carries a failed news_result only under
\* Both{fail_on_news_error = false}: under StatsOnly, NewsOnly and
\* Both{fail_on_news_error = true} every Ok result has news_result Ok.
C10_FailureAsDataOnlyNonStrict ==
    (IsOk(ret) /\ strategy \in {StatsOnly, NewsOnly, Both(TRUE)})
        => IsOk(ret.val.news_result)

C10_Witness ==
    /\ pc = "done"
    /\ strategy = Both(TRUE)
    /\ IsOk(ret)
    /\ ret.val.news_result # Ok(<<>>)

\* ------------------------------------------------------------------------
\* Error propagation
\* ------------------------------------------------------------------------

\* the call failed with exactly the error the future fut settled with
FailedWith(fut) == IsErr(OutOf(fut)) /\ IsErr(ret) /\ ret.err = fut.out.err

\* C11: a failed call of get_player_stats, get_player_news or
\* get_player_summary returns exactly the error value a failing provider
\* returned, and a provider failure always fails the call, except a news
\* failure under Both{fail_on_news_error = false}, where news_result holds
\* exactly the provider's error.
C11_ProviderErrorsSurfaceUnchanged ==
    pc = "done"
    => /\ IsErr(ret) => FailedWith(stats_fut) \/ FailedWith(news_fut)
       /\ IsErr(OutOf(stats_fut)) => FailedWith(stats_fut)
       /\ IsErr(OutOf(news_fut))
            => \/ IsErr(ret)
               \/ /\ strategy = Both(FALSE)
                  /\ IsOk(ret)
                  /\ ret.val.news_result = news_fut.out
       /\ api \in {"get_player_stats", "get_player_news"}
            => ret = (IF api = "get_player_stats" THEN stats_fut.out ELSE news_fut.out)

C11_Witness ==
    /\ pc = "done"
    /\ api = "get_player_summary"
    /\ strategy = NewsOnly
    /\ IsErr(news_fut.out)
    /\ news_fut.out.err.tag = "JsonParse"
    /\ ret = Err(JsonParse)

\* C13: in every call of get_player_stats, get_player_news and
\* get_player_summary, the identifier handed to the stats provider and the
\* player_name of the query handed to the news provider are normalized
\* slugs: each equals its own to_dash_case.
C13_ProviderIdentifiersAreSlugs ==
    /\ stats_calls > 0 => dash_name = to_dash_case(dash_name)
    /\ news_calls > 0 => query.player_name = to_dash_case(query.player_name)

\* ------------------------------------------------------------------------
\* Properties of the remote providers
\* ------------------------------------------------------------------------

\* send() of the stats request settled with a response whose status is not 2xx
StatsNonSuccess ==
    /\ stats_http.resp # None
    /\ stats_http.resp.t = "response"
    /\ ~is_success(stats_http.resp.status)

\* C15: a stats response whose status is not 2xx makes the remote stats
\* provider fail with StatsApi carrying that status, and the body of the
\* response is never read.
C15_NonSuccessIsStatsApi ==
    StatsNonSuccess
    => /\ stats_fut = Done(Err(StatsApi(stats_http.resp.status,
                                        <<"Failed to fetch player stats for", dash_name>>)))
       /\ stats_http.body = None

C15_Witness ==
    /\ StatsNonSuccess
    /\ stats_http.resp.status = 404
    /\ pc = "done"
    /\ api = "get_player_stats"
    /\ ret.err.tag = "StatsApi"
    /\ ret.err.status = 404

\* text() of a 2xx stats response settled with a body that decodes
StatsDecoded ==
    /\ stats_http.body # None
    /\ stats_http.body.t # "network"
    /\ PlayerResponseOk(stats_http.body)

\* C16: for a 2xx stats response that decodes, the remote stats provider
\* returns PlayerNotFound with the queried identifier exactly when the decoded
\* player list is empty, and otherwise the PlayerStats of the first entry,
\* whatever the later entries contain.
C16_EmptyListIsNotFoundElseFirstEntry ==
    StatsDecoded
    => LET players == players_of(stats_http.body)
       IN  /\ stats_fut.st = "done"
           /\ (players = <<>>) <=> (stats_fut.out = Err(PlayerNotFound(dash_name)))
           /\ players # <<>>
                => /\ stats_fut.out = Ok(stats_of_entry(players[1]))
                   /\ players[1] = JoshEntry
                        => stats_fut.out.val
                             = PlayerStats("Josh", "Allen", "QB", 17, "BUF", "", FALSE, 16)

C16_Witness ==
    /\ StatsDecoded
    /\ players_of(stats_http.body) = <<JoshEntry, SparseEntry>>
    /\ pc = "done"
    /\ IsOk(ret)
    /\ api = "get_player_stats"
    /\ ret.val.first_name = "Josh"

\* the JSON member is absent or null
Missing(j) == j.t \in {"absent", "null"}

\* the leaf f of the "player" object of the entry is absent or null
InfoLeafMissing(entry, f) ==
    entry.v.player.t = "absent" \/ Missing(entry.v.player.v[f])

\* C17: a stats payload whose player entry has every optional field absent
\* decodes to a PlayerStats with every field at its zero value, not to a
\* decode error, and each absent or null leaf yields its zero value whatever
\* the other leaves hold.
C17_AbsentFieldsDecodeToZero ==
    /\ stats_http.body = StatsJson(JArr(<<EmptyEntry>>))
         => stats_fut = Done(Ok(PlayerStats("", "", "", 0, "", "", FALSE, 0)))
    /\ (StatsDecoded /\ players_of(stats_http.body) # <<>>)
         => LET entry == players_of(stats_http.body)[1]
                stats == stats_fut.out.val
            IN  /\ stats_fut.st = "done"
                /\ IsOk(stats_fut.out)
                /\ InfoLeafMissing(entry, "firstName") => stats.first_name = ""
                /\ InfoLeafMissing(entry, "lastName") => stats.last_name = ""
                /\ InfoLeafMissing(entry, "primaryPosition") => stats.primary_position = ""
                /\ InfoLeafMissing(entry, "jerseyNumber") => stats.jersey_number = 0
                /\ (\/ InfoLeafMissing(entry, "currentTeam")
                    \/ Missing(entry.v.player.v.currentTeam.v.abbreviation))
                     => stats.current_team = ""
                /\ InfoLeafMissing(entry, "currentInjury") => stats.injury = ""
                /\ InfoLeafMissing(entry, "rookie") => stats.rookie = FALSE
                /\ (entry.v.stats.t = "absent" \/ Missing(entry.v.stats.v.gamesPlayed))
                     => stats.games_played = 0
                /\ entry = SparseEntry
                     => stats = PlayerStats("", "", "", 0, "", "", TRUE, 0)

C17_Witness ==
    /\ stats_http.body = StatsJson(JArr(<<EmptyEntry>>))
    /\ pc = "done"
    /\ api = "get_player_stats"
    /\ ret = Ok(PlayerStats("", "", "", 0, "", "", FALSE, 0))

\* the body of the exchange was read from a response with a 2xx status
BodyOfSuccess(http) ==
    http.body # None
    => http.resp # None /\ http.resp.t = "response" /\ is_success(http.resp.status)

\* C18: a 2xx response whose body is not valid JSON makes the remote stats
\* provider and the remote news provider fail with JsonParse: it is never
\* PlayerNotFound, a default record or an empty article list.
C18_MalformedJsonIsJsonParse ==
    /\ BodyOfSuccess(stats_http)
    /\ BodyOfSuccess(news_http)
    /\ stats_http.body = MalformedBody => stats_fut = Done(Err(JsonParse))
    /\ news_http.body = MalformedBody => news_fut = Done(Err(JsonParse))

C18_Witness ==
    /\ stats_http.body = MalformedBody
    /\ news_http.body = MalformedBody
    /\ pc = "done"
    /\ strategy = Both(FALSE)
    /\ ret = Err(JsonParse)

\* the names of the query parameters ps
ParamNames(ps) == {ps[i][1] : i \in 1..Len(ps)}

\* the value the query parameters ps give the name k
ParamValue(ps, k) == ps[CHOOSE i \in 1..Len(ps) : ps[i][1] = k][2]

\* C19: the request of the remote news provider always carries the query
\* parameters q, pageSize, sortBy and apiKey, and carries the parameter from
\* if and only if the query's from_date is not empty.
C19_FromOnlyWhenDated ==
    news_http.req # None
    => LET ps == news_http.req.query
       IN  /\ {"q", "pageSize", "sortBy", "apiKey"} \subseteq ParamNames(ps)
           /\ ParamNames(ps) \subseteq {"q", "pageSize", "sortBy", "apiKey", "from"}
           /\ Len(ps) = Cardinality(ParamNames(ps))
           /\ ParamValue(ps, "q") = query.player_name
           /\ ParamValue(ps, "pageSize") = query.page_size
           /\ ParamValue(ps, "sortBy") = query.sort_by
           /\ ParamValue(ps, "apiKey") = news_provider.config.news_api_key
           /\ ("from" \in ParamNames(ps)) <=> (query.from_date # "")
           /\ "from" \in ParamNames(ps) => ParamValue(ps, "from") = query.from_date

C19_Witness ==
    /\ news_http.req # None
    /\ "from" \in ParamNames(news_http.req.query)
    /\ query.from_date = "2024-01-01"
    /\ pc = "done"
    /\ IsOk(ret)

\* send() of the news request settled with a response whose status is not 2xx
NewsNonSuccess ==
    /\ news_http.resp # None
    /\ news_http.resp.t = "response"
    /\ ~is_success(news_http.resp.status)

\* a non-2xx news response makes the provider fail with NewsApi carrying the
\* status of the response
NonSuccessIsNewsApi ==
    NewsNonSuccess
    => /\ news_fut = Done(Err(NewsApi(news_http.resp.status,
                                      <<"Failed to fetch news for", query.player_name>>)))
       /\ news_http.body = None

\* text() of a 2xx news response settled with a JSON object whose articles
\* member is the empty array
NewsArticlesEmpty ==
    /\ news_http.body # None
    /\ news_http.body.t = "obj"
    /\ news_http.body.v.articles = JArr(<<>>)

\* C20: the remote news provider maps every non-2xx response to NewsApi with
\* the status of the response, and every 2xx response whose articles array
\* is empty to a success holding the empty list.
C20_EmptyArrayIsSuccess ==
    /\ NonSuccessIsNewsApi
    /\ NewsArticlesEmpty => news_fut = Done(Ok(<<>>))

\* C20, amended: the remote news provider maps every non-2xx response to
\* NewsApi with the status of the response, and every 2xx response that
\* decodes (status, totalResults and articles present and well typed) and
\* whose articles array is empty to a success holding the empty list.
C20_DecodedEmptyArrayIsSuccess ==
    /\ NonSuccessIsNewsApi
    /\ (NewsArticlesEmpty /\ NewsResponseOk(news_http.body))
         => news_fut = Done(Ok(<<>>))

C20_Witness ==
    /\ news_http.body = NewsJson(JStr("ok"), JNum(0), JArr(<<>>))
    /\ pc = "done"
    /\ api = "get_player_news"
    /\ ret = Ok(<<>>)

\* the string the JSON member holds, empty when it is absent or null
StringOrEmpty(j) == IF Missing(j) THEN "" ELSE j.s

MockNewsReturned ==
    /\ api = "get_player_news"
    /\ pc = "done"
    /\ news_provider.kind = "mock"

\* C26 as stated: with a mock news provider, get_player_news for a name with
\* registered articles returns exactly these articles in their order, and
\* for a name with nothing registered a success holding an empty list.
C26_RegisteredArticlesReturned ==
    MockNewsReturned
    => /\ query.player_name \in DOMAIN news_provider.responses
            => ret = Ok(news_provider.responses[query.player_name])
       /\ (query.player_name \notin DOMAIN news_provider.responses
             /\ query.player_name \notin DOMAIN news_provider.errors)
            => ret = Ok(<<>>)

\* C26 amended: with a mock news provider, get_player_news for a name with
\* registered articles and no registered error returns exactly these
\* articles in their order (the two of "josh-allen" in the default data),
\* and for a name with nothing registered a success holding an empty list.
C26_RegisteredArticlesReturnedUnlessError ==
    MockNewsReturned
    => /\ (query.player_name \in DOMAIN news_provider.responses
             /\ query.player_name \notin DOMAIN news_provider.errors)
            => ret = Ok(news_provider.responses[query.player_name])
       /\ (news_provider = MockNewsProvider_with_defaults
             /\ query.player_name = JoshAllenSlug)
            => ret = Ok(<<JoshArticle1, JoshArticle2>>)
       /\ (query.player_name \notin DOMAIN news_provider.responses
             /\ query.player_name \notin DOMAIN news_provider.errors)
            => ret = Ok(<<>>)

C26_Witness ==
    /\ MockNewsReturned
    /\ news_provider = MockNewsProvider_with_defaults
    /\ query.player_name = JoshAllenSlug
    /\ ret = Ok(<<JoshArticle1, JoshArticle2>>)

\* get_player_news for a name nothing is registered for has returned
C26_WitnessUnknown ==
    /\ MockNewsReturned
    /\ query.player_name \notin DOMAIN news_provider.responses
    /\ ret = Ok(<<>>)

\* the bodies text() settles with when only the way a call settles matters:
\* undecodable, decodable and empty, decodable with one entry
SettledStatsBodies ==
    {NetworkFailure, MalformedBody, StatsJson(JArr(<<>>)), StatsJson(JArr(<<JoshEntry>>))}

SettledNewsBodies ==
    {NetworkFailure, MalformedBody, NewsJson(JStr("ok"), JNum(0), JArr(<<>>)),
     NewsJson(JStr("ok"), JNum(1), JArr(<<FullArticleEntry>>))}

\* a step of the get_player_summary call itself
SummaryStep ==
    \/ StatsOnlyFetch
    \/ StatsOnlyReturn
    \/ NewsOnlyFetch
    \/ NewsOnlyReturn
    \/ JoinPollStats
    \/ JoinPollNews
    \/ JoinReturn

\* an await of a provider call the summary call issued settles
ProviderSettles ==
    \/ \E r \in SendOutcomes : StatsResponse(r)
    \/ \E b \in SettledStatsBodies : StatsBody(b)
    \/ \E r \in SendOutcomes : NewsResponse(r)
    \/ \E b \in SettledNewsBodies : NewsBody(b)

NextSummary ==
    \/ \E n \in CallNames, s \in FetchStrategy : GetPlayerSummary(n, s)
    \/ SummaryStep
    \/ ProviderSettles
    \/ Return

\* get_player_summary calls alone, where every await of a provider call
\* settles and the runtime polls a task that can go on
SpecSummaryFair ==
    /\ Init
    /\ [][NextSummary]_vars
    /\ WF_vars(SummaryStep)
    /\ WF_vars(ProviderSettles)

\* a get_player_summary call has been made and has not returned yet
SummaryRunning == api = "get_player_summary" /\ pc # "done"

\* the running summary call can take a step of its own
SummaryCanStep ==
    \/ pc \in {"stats_only", "news_only", "join_stats"}
    \/ pc = "join_news" /\ NewsPolledWith(stats_fut)
    \/ pc = "stats_only_await" /\ stats_fut.st = "done"
    \/ pc = "news_only_await" /\ news_fut.st = "done"
    \/ pc = "join_wait" /\ JoinReady(stats_fut, news_fut)

\* a provider call the summary call issued has not settled
IssuedCallPending ==
    \/ stats_calls > 0 /\ stats_fut.st \in {"send", "text"}
    \/ news_calls > 0 /\ news_fut.st \in {"send", "text"}

\* C27: for every strategy, when every provider call get_player_summary
\* issues eventually settles, get_player_summary eventually returns; while
\* it cannot step, a provider call it issued is still pending.
C27_SummaryReturns ==
    /\ [](SummaryRunning => (SummaryCanStep \/ IssuedCallPending))
    /\ \A s \in FetchStrategy :
         (SummaryRunning /\ strategy = s)
           ~> (api = "get_player_summary" /\ strategy = s /\ pc = "done")

C27_Witness ==
    /\ api = "get_player_summary"
    /\ strategy = Both(TRUE)
    /\ pc = "done"
    /\ stats_provider.kind = "remote"
    /\ news_provider.kind = "remote"
    /\ IsErr(ret)

\* C28: the news query get_player_summary sends under NewsOnly and Both has
\* player_name equal to the slug of the given name, from_date empty,
\* page_size 5 and sort_by "publishedAt"; a remote request of a summary call
\* carries no from parameter, and under Both the stats provider receives the
\* same slug.
C28_SummaryNewsQueryIsDefault ==
    (api = "get_player_summary" /\ news_calls > 0)
    => /\ query = [ player_name |-> to_dash_case(name), from_date |-> "",
                    page_size |-> 5, sort_by |-> "publishedAt" ]
       /\ news_http.req # None
            => /\ "from" \notin ParamNames(news_http.req.query)
               /\ ParamValue(news_http.req.query, "q") = to_dash_case(name)
               /\ ParamValue(news_http.req.query, "pageSize") = 5
               /\ ParamValue(news_http.req.query, "sortBy") = "publishedAt"
       /\ strategy.tag = "Both"
            => /\ stats_calls = 1
               /\ dash_name = query.player_name
               /\ stats_http.req # None => stats_http.req.query = <<"player", query.player_name>>

C28_Witness ==
    /\ api = "get_player_summary"
    /\ strategy.tag = "Both"
    /\ news_calls = 1
    /\ name = <<" "," ","J","O","S","H"," "," "," ","a","l","l","e","n">>
    /\ query.player_name = JoshAllenSlug
    /\ news_http.req # None
    /\ stats_http.req # None

\* a summary call for a name with capital sigmas has sent its news request
C28_WitnessSigma ==
    /\ api = "get_player_summary"
    /\ news_calls = 1
    /\ name = <<CapitalSigma, " ", "A", CapitalSigma>>
    /\ query.player_name = <<SmallSigma, "-", "a", FinalSigma>>

\* ------------------------------------------------------------------------
\* Concurrent calls on one shared client with mock providers
\* (src/client.rs, src/api/players.rs, src/providers/mock_providers.rs)
\* ------------------------------------------------------------------------

\* the calls the concurrent callers make
ConcCalls ==
    { [api |-> "get_player_stats", name |-> n, strategy |-> None, query |-> None]
        : n \in { <<"J","o","s","h"," ","A","l","l","e","n">>, <<"n","o","b","o","d","y">> } }
    \cup
    { [api |-> "get_player_news", name |-> <<>>, strategy |-> None,
       query |-> for_player(JoshAllenSlug)] }
    \cup
    { [api |-> "get_player_summary", name |-> <<"J","o","s","h"," ","A","l","l","e","n">>,
       strategy |-> s, query |-> None] : s \in FetchStrategy }

\* a caller that has not called yet
IdleRun ==
    [api |-> "none", name |-> <<>>, strategy |-> None, dash_name |-> <<>>,
     query |-> None, pc |-> "idle", stats_out |-> None, news_out |-> None,
     ret |-> None, overlapped |-> FALSE]

\* the call is between its issue and its return
InFlight(c) == c.pc \notin {"idle", "done"}

\* the calls once call i moved to c: calls in flight together have overlapped
Moved(run, i, c) ==
    LET moved == [run EXCEPT ![i] = c]
    IN  [j \in DOMAIN moved |->
            IF InFlight(moved[j]) /\ \E k \in DOMAIN moved : k # j /\ InFlight(moved[k])
            THEN [moved[j] EXCEPT !.overlapped = TRUE]
            ELSE moved[j]]

\* what the call c returns when it is the only call on the client
Alone(client, c) ==
    IF c.api = "get_player_stats"
    THEN MockStatsProvider_fetch_player_stats(client.stats_provider, to_dash_case(c.name))
    ELSE IF c.api = "get_player_news"
    THEN MockNewsProvider_fetch_player_news(client.news_provider, c.query)
    ELSE LET arm == Arm(c.name, c.strategy)
             stats_result == MockStatsProvider_fetch_player_stats(client.stats_provider,
                                                                  arm.dash_name)
             news_result == MockNewsProvider_fetch_player_news(client.news_provider,
                                                               arm.query)
         IN  IF arm.pc = "stats_only" THEN StatsOnlyResult(stats_result)
             ELSE IF arm.pc = "news_only" THEN NewsOnlyResult(news_result)
             ELSE ConcurrentResult(stats_result, news_result,
                                   c.strategy.fail_on_news_error)

\* one client with mock providers, shared by MaxCalls callers
InitConc ==
    /\ stats_provider \in {p \in StatsProviders : p.kind = "mock"}
    /\ news_provider \in {p \in NewsProviders : p.kind = "mock"}
    /\ IdleCall
    /\ IdleSlug
    /\ calls = [built |-> [stats_provider |-> stats_provider,
                           news_provider |-> news_provider],
                run |-> [i \in 1..MaxCalls |-> IdleRun]]
    /\ IdleConfig
    /\ IdleMock

\* caller i calls get_player_stats, get_player_news or get_player_summary
ConcIssue(i, c) ==
    /\ calls.run[i].pc = "idle"
    /\ calls' = [calls EXCEPT !.run = Moved(@, i,
          IF c.api = "get_player_stats"
          THEN [IdleRun EXCEPT !.api = c.api, !.name = c.name,
                               !.dash_name = to_dash_case(c.name), !.pc = "get_stats"]
          ELSE IF c.api = "get_player_news"
          THEN [IdleRun EXCEPT !.api = c.api, !.query = c.query, !.pc = "get_news"]
          ELSE [IdleRun EXCEPT !.api = c.api, !.name = c.name, !.strategy = c.strategy,
                               !.dash_name = Arm(c.name, c.strategy).dash_name,
                               !.query = Arm(c.name, c.strategy).query,
                               !.pc = Arm(c.name, c.strategy).pc])]
    /\ UNCHANGED <<stats_provider, news_provider, call_vars, slug_vars, config_vars, mock_vars>>

\* call i invokes fetch_player_stats on the shared stats provider
ConcFetchStats(i) ==
    LET c == calls.run[i]
    IN  /\ c.pc \in {"get_stats", "stats_only", "join_stats"}
        /\ calls' = [calls EXCEPT !.run = Moved(@, i,
              [c EXCEPT
                 !.stats_out = MockStatsProvider_fetch_player_stats(stats_provider,
                                                                    c.dash_name),
                 !.pc = IF c.pc = "get_stats" THEN "get_stats_await"
                        ELSE IF c.pc = "stats_only" THEN "stats_only_await"
                        ELSE "join_news"])]
        /\ stats_provider' = MockStatsProvider_after_fetch(stats_provider, c.dash_name)
        /\ UNCHANGED <<news_provider, call_vars, slug_vars, config_vars, mock_vars>>

\* call i invokes fetch_player_news on the shared news provider
ConcFetchNews(i) ==
    LET c == calls.run[i]
    IN  /\ c.pc \in {"get_news", "news_only", "join_news"}
        /\ calls' = [calls EXCEPT !.run = Moved(@, i,
              [c EXCEPT
                 !.news_out = MockNewsProvider_fetch_player_news(news_provider, c.query),
                 !.pc = IF c.pc = "get_news" THEN "get_news_await"
                        ELSE IF c.pc = "news_only" THEN "news_only_await"
                        ELSE "join_wait"])]
        /\ news_provider' = MockNewsProvider_after_fetch(news_provider, c.query)
        /\ UNCHANGED <<stats_provider, call_vars, slug_vars, config_vars, mock_vars>>

\* call i returns
ConcReturn(i) ==
    LET c == calls.run[i]
    IN  /\ c.pc \in {"get_stats_await", "get_news_await", "stats_only_await",
                      "news_only_await", "join_wait"}
        /\ calls' = [calls EXCEPT !.run = Moved(@, i,
              [c EXCEPT
                 !.ret = IF c.pc = "get_stats_await" THEN c.stats_out
                         ELSE IF c.pc = "get_news_await" THEN c.news_out
                         ELSE IF c.pc = "stats_only_await"
                              THEN StatsOnlyResult(c.stats_out)
                         ELSE IF c.pc = "news_only_await"
                              THEN NewsOnlyResult(c.news_out)
                         ELSE ConcurrentResult(c.stats_out, c.news_out,
                                               c.strategy.fail_on_news_error),
                 !.pc = "done"])]
        /\ UNCHANGED <<stats_provider, news_provider, call_vars, slug_vars, config_vars, mock_vars>>

\* the caller takes the result and may call again
ConcTake(i) ==
    /\ calls.run[i].pc = "done"
    /\ calls' = [calls EXCEPT !.run = Moved(@, i, IdleRun)]
    /\ UNCHANGED <<stats_provider, news_provider, call_vars, slug_vars, config_vars, mock_vars>>

NextConc ==
    \/ \E i \in 1..MaxCalls, c \in ConcCalls : ConcIssue(i, c)
    \/ \E i \in 1..MaxCalls : ConcFetchStats(i)
    \/ \E i \in 1..MaxCalls : ConcFetchNews(i)
    \/ \E i \in 1..MaxCalls : ConcReturn(i)
    \/ \E i \in 1..MaxCalls : ConcTake(i)

SpecConc == InitConc /\ [][NextConc]_vars

\* C14: no fetch changes a provider of the shared client, and under every
\* interleaving of concurrent get_player_stats, get_player_news and
\* get_player_summary calls each call returns what it returns when it runs
\* alone on that client.
C14_ConcurrentCallsAsAlone ==
    /\ stats_provider = calls.built.stats_provider
    /\ news_provider = calls.built.news_provider
    /\ \A i \in DOMAIN calls.run :
          calls.run[i].pc = "done" => calls.run[i].ret = Alone(calls.built, calls.run[i])

C14_Witness ==
    \E i \in DOMAIN calls.run, j \in DOMAIN calls.run :
        /\ i # j
        /\ calls.run[i].pc = "done"
        /\ calls.run[i].overlapped
        /\ calls.run[i].api = "get_player_summary"
        /\ calls.run[i].strategy = Both(FALSE)
        /\ IsOk(calls.run[i].ret)
        /\ calls.run[j].pc = "done"
        /\ calls.run[j].overlapped
        /\ calls.run[j].api = "get_player_stats"
        /\ calls.run[j].dash_name = calls.run[i].dash_name

\* ------------------------------------------------------------------------
\* The slug normalizer on its own (src/utils.rs)
\* ------------------------------------------------------------------------

\* characters of the strings handed to to_dash_case
SlugChars == {"A", "a", CapitalSigma, SmallSigma, FinalSigma, " ", "\t", "-"}

IsUpper(c) == c = CapitalSigma \/ \E i \in 1..Len(UpperLetters) : UpperLetters[i] = c

\* char::to_uppercase on the characters of the model
UpperChar(c) ==
    IF c \in {SmallSigma, FinalSigma} THEN CapitalSigma
    ELSE IF \E i \in 1..Len(LowerLetters) : LowerLetters[i] = c
         THEN UpperLetters[CHOOSE i \in 1..Len(LowerLetters) : LowerLetters[i] = c]
         ELSE c

\* c and d are the same letter in different case
CasePair(c, d) == UpperChar(c) = UpperChar(d) /\ IsUpper(c) # IsUpper(d)

\* s with c put before index i
InsertAt(s, i, c) == SubSeq(s, 1, i - 1) \o <<c>> \o SubSeq(s, i, Len(s))

\* s without the character at index i
RemoveAt(s, i) == SubSeq(s, 1, i - 1) \o SubSeq(s, i + 1, Len(s))

\* to_dash_case is handed any string over SlugChars
InitSlug ==
    /\ stats_provider = MockStatsProvider_with_defaults
    /\ news_provider = MockNewsProvider_with_defaults
    /\ IdleCall
    /\ calls = <<>>
    /\ slug_x \in SeqsUpTo(SlugChars, MaxSlugLen)
    /\ slug_y = slug_x
    /\ slug_fx = None
    /\ slug_ffx = None
    /\ slug_fy = None
    /\ IdleConfig
    /\ IdleMock

\* the variant changes the case of one letter
FlipCase(i, c) ==
    /\ i \in 1..Len(slug_y)
    /\ CasePair(slug_y[i], c)
    /\ slug_y' = [slug_y EXCEPT ![i] = c]
    /\ slug_fy' = None
    /\ UNCHANGED <<slug_x, slug_fx, slug_ffx>>
    /\ UNCHANGED <<stats_provider, news_provider, call_vars, conc_vars, config_vars, mock_vars>>

\* the variant gains one whitespace character: leading, trailing, or next
\* to whitespace it already has
InsertWhitespace(i, w) ==
    /\ Len(slug_y) < Len(slug_x) + MaxPadding
    /\ i \in 1..(Len(slug_y) + 1)
    /\ IsWhitespace(w)
    /\ \/ i = 1
       \/ i = Len(slug_y) + 1
       \/ i > 1 /\ IsWhitespace(slug_y[i - 1])
       \/ i <= Len(slug_y) /\ IsWhitespace(slug_y[i])
    /\ slug_y' = InsertAt(slug_y, i, w)
    /\ slug_fy' = None
    /\ UNCHANGED <<slug_x, slug_fx, slug_ffx>>
    /\ UNCHANGED <<stats_provider, news_provider, call_vars, conc_vars, config_vars, mock_vars>>

\* the variant loses one whitespace character: leading, trailing, or next
\* to whitespace it keeps
DeleteWhitespace(i) ==
    /\ i \in 1..Len(slug_y)
    /\ IsWhitespace(slug_y[i])
    /\ \/ i = 1
       \/ i = Len(slug_y)
       \/ i > 1 /\ IsWhitespace(slug_y[i - 1])
       \/ i < Len(slug_y) /\ IsWhitespace(slug_y[i + 1])
    /\ slug_y' = RemoveAt(slug_y, i)
    /\ slug_fy' = None
    /\ UNCHANGED <<slug_x, slug_fx, slug_ffx>>
    /\ UNCHANGED <<stats_provider, news_provider, call_vars, conc_vars, config_vars, mock_vars>>

\* to_dash_case(slug_x)
NormalizeX ==
    /\ slug_fx = None
    /\ slug_fx' = Some(to_dash_case(slug_x))
    /\ UNCHANGED <<slug_x, slug_y, slug_ffx, slug_fy>>
    /\ UNCHANGED <<stats_provider, news_provider, call_vars, conc_vars, config_vars, mock_vars>>

\* to_dash_case(to_dash_case(slug_x))
NormalizeAgain ==
    /\ slug_fx # None
    /\ slug_ffx = None
    /\ slug_ffx' = Some(to_dash_case(slug_fx.val))
    /\ UNCHANGED <<slug_x, slug_y, slug_fx, slug_fy>>
    /\ UNCHANGED <<stats_provider, news_provider, call_vars, conc_vars, config_vars, mock_vars>>

\* to_dash_case(slug_y)
NormalizeY ==
    /\ slug_fy = None
    /\ slug_fy' = Some(to_dash_case(slug_y))
    /\ UNCHANGED <<slug_x, slug_y, slug_fx, slug_ffx>>
    /\ UNCHANGED <<stats_provider, news_provider, call_vars, conc_vars, config_vars, mock_vars>>

NextSlug ==
    \/ \E i \in 1..(MaxSlugLen + MaxPadding), c \in SlugChars : FlipCase(i, c)
    \/ \E i \in 1..(MaxSlugLen + MaxPadding + 1), w \in SlugChars : InsertWhitespace(i, w)
    \/ \E i \in 1..(MaxSlugLen + MaxPadding) : DeleteWhitespace(i)
    \/ NormalizeX
    \/ NormalizeAgain
    \/ NormalizeY

SpecSlug == InitSlug /\ [][NextSlug]_vars

\* C12: to_dash_case is idempotent, and two strings that differ only in
\* letter case and in the amount of leading, trailing or inner whitespace
\* normalize to the same slug.
C12_IdempotentAndVariantsAgree ==
    /\ slug_ffx # None => slug_ffx = slug_fx
    /\ (slug_fx # None /\ slug_fy # None) => slug_fy = slug_fx

\* ------------------------------------------------------------------------
\* Construction of a configuration and of a client from it
\* (src/config.rs, src/client.rs)
\* ------------------------------------------------------------------------

\* API keys handed to the constructors: empty, and non-empty of several lengths
ConfigKeys == {"", "x", "short", "a-20-character-key-x"}

\* base URLs handed to the builder
ConfigUrls ==
    { <<"h","t","t","p",":","/","/","l","o","c","a","l","h","o","s","t">>,
      <<"f","t","p",":","/","/","x">>,
      <<"h","t","t">>,
      <<>> }

\* news-tuning blocks handed to the builder and to with_news_config
NewsConfigs ==
    { NewsConfig_default,
      [max_articles |-> 10, days_back |-> 30, sort_by |-> "relevancy", language |-> "fr"],
      [max_articles |-> 1, days_back |-> 7, sort_by |-> "popularity", language |-> "en"] }

\* the environments the process may run in
Envs ==
    [STATS_API_KEY : {None} \cup {Some(k) : k \in {"", "short"}},
     NEWS_API_KEY : {None} \cup {Some(k) : k \in {"", "short"}}]

\* the outcome out of a configuration constructor called on input
Built(via, input, out) == [via |-> via, input |-> input, out |-> out]

\* StatbookClient::new: both remote providers get a copy of the configuration
StatbookClient_new(config) ==
    [stats_provider |-> RemoteProvider(config), news_provider |-> RemoteProvider(config)]

InitConfig ==
    /\ stats_provider = MockStatsProvider_with_defaults
    /\ news_provider = MockNewsProvider_with_defaults
    /\ IdleCall
    /\ IdleSlug
    /\ IdleMock
    /\ calls = <<>>
    /\ builder = StatbookConfigBuilder_default
    /\ env \in Envs
    /\ built = None
    /\ statbook_client = None

\* the part of the state that construction leaves alone
ConfigFrame ==
    UNCHANGED <<stats_provider, news_provider, call_vars, slug_vars, conc_vars,
                mock_vars, env>>

\* StatbookConfigBuilder::stats_api_key
Builder_stats_api_key(k) ==
    /\ built = None
    /\ builder' = [builder EXCEPT !.stats_api_key = Some(k)]
    /\ UNCHANGED <<built, statbook_client>>
    /\ ConfigFrame

\* StatbookConfigBuilder::news_api_key
Builder_news_api_key(k) ==
    /\ built = None
    /\ builder' = [builder EXCEPT !.news_api_key = Some(k)]
    /\ UNCHANGED <<built, statbook_client>>
    /\ ConfigFrame

\* StatbookConfigBuilder::stats_base_url
Builder_stats_base_url(u) ==
    /\ built = None
    /\ builder' = [builder EXCEPT !.stats_base_url = Some(u)]
    /\ UNCHANGED <<built, statbook_client>>
    /\ ConfigFrame

\* StatbookConfigBuilder::news_base_url
Builder_news_base_url(u) ==
    /\ built = None
    /\ builder' = [builder EXCEPT !.news_base_url = Some(u)]
    /\ UNCHANGED <<built, statbook_client>>
    /\ ConfigFrame

\* StatbookConfigBuilder::news_config
Builder_news_config(nc) ==
    /\ built = None
    /\ builder' = [builder EXCEPT !.news_config = Some(nc)]
    /\ UNCHANGED <<built, statbook_client>>
    /\ ConfigFrame

\* StatbookConfigBuilder::build consumes the builder
Builder_build ==
    /\ built = None
    /\ built' = Built("build", builder, StatbookConfigBuilder_build(builder))
    /\ builder' = StatbookConfigBuilder_default
    /\ UNCHANGED statbook_client
    /\ ConfigFrame

\* StatbookConfig::new
Config_new(stats_key, news_key) ==
    /\ built = None
    /\ builder = StatbookConfigBuilder_default
    /\ built' = Built("new", <<stats_key, news_key>>, Ok(StatbookConfig_new(stats_key, news_key)))
    /\ UNCHANGED <<builder, statbook_client>>
    /\ ConfigFrame

\* StatbookConfig::from_env
Config_from_env ==
    /\ built = None
    /\ builder = StatbookConfigBuilder_default
    /\ built' = Built("from_env", env, StatbookConfig_from_env(env))
    /\ UNCHANGED <<builder, statbook_client>>
    /\ ConfigFrame

\* StatbookConfig::with_news_config on the configuration that was built
Config_with_news_config(nc) ==
    /\ built # None
    /\ IsOk(built.out)
    /\ statbook_client = None
    /\ built' = [built EXCEPT !.out = Ok(with_news_config(built.out.val, nc))]
    /\ UNCHANGED <<builder, statbook_client>>
    /\ ConfigFrame

\* StatbookClient::new on the configuration that was built
Client_new ==
    /\ built # None
    /\ IsOk(built.out)
    /\ statbook_client = None
    /\ statbook_client' = Some(StatbookClient_new(built.out.val))
    /\ UNCHANGED <<builder, built>>
    /\ ConfigFrame

\* StatbookClient::from_env
Client_from_env ==
    /\ built = None
    /\ builder = StatbookConfigBuilder_default
    /\ built' = Built("from_env", env, StatbookConfig_from_env(env))
    /\ statbook_client' = IF IsOk(StatbookConfig_from_env(env))
                          THEN Some(StatbookClient_new(StatbookConfig_from_env(env).val))
                          ELSE None
    /\ UNCHANGED builder
    /\ ConfigFrame

\* the configuration and the client are dropped
Config_drop ==
    /\ built # None
    /\ built' = None
    /\ statbook_client' = None
    /\ UNCHANGED builder
    /\ ConfigFrame

NextConfig ==
    \/ \E k \in ConfigKeys : Builder_stats_api_key(k)
    \/ \E k \in ConfigKeys : Builder_news_api_key(k)
    \/ \E u \in ConfigUrls : Builder_stats_base_url(u)
    \/ \E u \in ConfigUrls : Builder_news_base_url(u)
    \/ \E nc \in NewsConfigs : Builder_news_config(nc)
    \/ Builder_build
    \/ \E k1 \in ConfigKeys, k2 \in ConfigKeys : Config_new(k1, k2)
    \/ Config_from_env
    \/ \E nc \in NewsConfigs : Config_with_news_config(nc)
    \/ Client_new
    \/ Client_from_env
    \/ Config_drop

SpecConfig == InitConfig /\ [][NextConfig]_vars

\* the keys a validating constructor was given, None for a key not given
GivenKeys ==
    IF built.via = "build"
    THEN [stats |-> built.input.stats_api_key, news |-> built.input.news_api_key]
    ELSE [stats |-> built.input.STATS_API_KEY, news |-> built.input.NEWS_API_KEY]

\* the base URLs the constructed configuration gets
GivenUrls ==
    IF built.via = "build"
    THEN [stats |-> option_or(built.input.stats_base_url, STATS_BASE_URL),
          news |-> option_or(built.input.news_base_url, NEWS_BASE_URL)]
    ELSE [stats |-> STATS_BASE_URL, news |-> NEWS_BASE_URL]

C23_NoClientWithInvalidConfig ==
    statbook_client # None
    => \A config \in {statbook_client.val.stats_provider.config,
                      statbook_client.val.news_provider.config} :
          /\ config.stats_api_key # ""
          /\ config.news_api_key # ""
          /\ starts_with(config.stats_base_url, <<"h","t","t","p">>)
          /\ starts_with(config.news_base_url, <<"h","t","t","p">>)

\* C24: building a configuration whose required API key is missing or empty
\* fails with MissingApiKey naming that key.
C24_MissingOrEmptyKeyIsMissingApiKey ==
    (built # None /\ built.via \in {"build", "from_env"})
    => LET absent(k) == k = None \/ k.val = ""
           named(k) == IF built.via = "build" THEN k
                      ELSE IF k = "stats_api_key" THEN "STATS_API_KEY" ELSE "NEWS_API_KEY"
       IN  /\ absent(GivenKeys.stats)
                => built.out = Err(MissingApiKey(named("stats_api_key")))
           /\ (~absent(GivenKeys.stats) /\ absent(GivenKeys.news))
                => built.out = Err(MissingApiKey(named("news_api_key")))

\* C25: the news-tuning block is not consumed: two configurations that
\* differ only in news_config send, for the same NewsQuery, the identical
\* request (URL and query parameters), whether the block comes from the
\* builder or from with_news_config.
C25_NewsConfigNotConsumed ==
    /\ (built # None /\ IsOk(built.out))
         => \A nc \in NewsConfigs, q \in CallQueries :
              NewsApiProvider_request(with_news_config(built.out.val, nc), q)
                = NewsApiProvider_request(built.out.val, q)
    /\ statbook_client # None
         => \A nc \in NewsConfigs, q \in CallQueries :
              NewsApiProvider_request(
                  [statbook_client.val.news_provider.config EXCEPT !.news_config = nc], q)
                = NewsApiProvider_request(statbook_client.val.news_provider.config, q)

C25_Witness ==
    /\ statbook_client # None
    /\ statbook_client.val.news_provider.config.news_config.max_articles = 10
    /\ statbook_client.val.news_provider.config.news_config.sort_by = "relevancy"
    /\ built.via = "build"
\* ------------------------------------------------------------------------
\* Registrations on the mock providers, then fetches
\* (src/providers/mock_providers.rs)
\* ------------------------------------------------------------------------

\* the names data is registered for
MockNames == {JoshAllenSlug, TomBradySlug}

\* the names fetched: the registered ones and one nothing is registered for
FetchNames == MockNames \cup {<<"n","o","b","o","d","y">>}

MockStatsValues == {JoshAllenStats, TomBradyStats}

MockArticleLists == {<<JoshArticle1, JoshArticle2>>, <<BradyArticle>>}

\* the StatbookError values handed to add_player_error
MockStatsErrors == {StatsApi(500, "forced"), Network}

\* the StatbookError values handed to add_news_error
MockNewsErrors == {NewsApi(429, "forced"), JsonParse}

\* one registration, as it was called
MockOp(op, n, v) == [op |-> op, name |-> n, val |-> v]

InitMock ==
    /\ stats_provider = MockStatsProvider_new
    /\ news_provider = MockNewsProvider_new
    /\ IdleCall
    /\ IdleSlug
    /\ IdleConfig
    /\ IdleMock
    /\ calls = <<>>

\* the part of the state the mock providers' operations leave alone
MockFrame == UNCHANGED <<call_vars, slug_vars, conc_vars, config_vars>>

\* MockStatsProvider::add_player_stats
AddPlayerStats(n, stats) ==
    /\ Len(mock_log) < MaxOps
    /\ stats_provider' = add_player_stats(stats_provider, n, stats)
    /\ mock_log' = Append(mock_log, MockOp("add_player_stats", n, stats))
    /\ mock_ret' = None
    /\ UNCHANGED news_provider
    /\ MockFrame

\* MockStatsProvider::add_player_error
AddPlayerError(n, error) ==
    /\ Len(mock_log) < MaxOps
    /\ stats_provider' = add_player_error(stats_provider, n, error)
    /\ mock_log' = Append(mock_log, MockOp("add_player_error", n, error))
    /\ mock_ret' = None
    /\ UNCHANGED news_provider
    /\ MockFrame

\* MockStatsProvider::add_player_not_found
AddPlayerNotFound(n) ==
    /\ Len(mock_log) < MaxOps
    /\ stats_provider' = add_player_not_found(stats_provider, n)
    /\ mock_log' = Append(mock_log, MockOp("add_player_not_found", n, None))
    /\ mock_ret' = None
    /\ UNCHANGED news_provider
    /\ MockFrame

\* MockNewsProvider::add_news_articles
AddNewsArticles(n, articles) ==
    /\ Len(mock_log) < MaxOps
    /\ news_provider' = add_news_articles(news_provider, n, articles)
    /\ mock_log' = Append(mock_log, MockOp("add_news_articles", n, articles))
    /\ mock_ret' = None
    /\ UNCHANGED stats_provider
    /\ MockFrame

\* MockNewsProvider::add_news_error
AddNewsError(n, error) ==
    /\ Len(mock_log) < MaxOps
    /\ news_provider' = add_news_error(news_provider, n, error)
    /\ mock_log' = Append(mock_log, MockOp("add_news_error", n, error))
    /\ mock_ret' = None
    /\ UNCHANGED stats_provider
    /\ MockFrame

\* MockStatsProvider::fetch_player_stats
FetchPlayerStats(n) ==
    /\ mock_ret' = [provider |-> "stats", name |-> n,
                    out |-> MockStatsProvider_fetch_player_stats(stats_provider, n)]
    /\ stats_provider' = MockStatsProvider_after_fetch(stats_provider, n)
    /\ UNCHANGED <<news_provider, mock_log>>
    /\ MockFrame

\* MockNewsProvider::fetch_player_news
FetchPlayerNews(n) ==
    /\ mock_ret' = [provider |-> "news", name |-> n,
                    out |-> MockNewsProvider_fetch_player_news(news_provider, for_player(n))]
    /\ news_provider' = MockNewsProvider_after_fetch(news_provider, for_player(n))
    /\ UNCHANGED <<stats_provider, mock_log>>
    /\ MockFrame

NextMock ==
    \/ \E n \in MockNames, stats \in MockStatsValues : AddPlayerStats(n, stats)
    \/ \E n \in MockNames, error \in MockStatsErrors : AddPlayerError(n, error)
    \/ \E n \in MockNames : AddPlayerNotFound(n)
    \/ \E n \in MockNames, articles \in MockArticleLists : AddNewsArticles(n, articles)
    \/ \E n \in MockNames, error \in MockNewsErrors : AddNewsError(n, error)
    \/ \E n \in FetchNames : FetchPlayerStats(n)
    \/ \E n \in FetchNames : FetchPlayerNews(n)

SpecMock == InitMock /\ [][NextMock]_vars

\* the registrations of the kinds ops made for the name n, in call order
Registered(ops, n) ==
    SelectSeq(mock_log, LAMBDA r : r.op \in ops /\ r.name = n)

\* the errors registered for the fetched name on the fetched provider
ErrorsRegistered ==
    IF mock_ret.provider = "stats"
    THEN Registered({"add_player_error", "add_player_not_found"}, mock_ret.name)
    ELSE Registered({"add_news_error"}, mock_ret.name)

\* the responses registered for the fetched name on the fetched provider
ResponsesRegistered ==
    IF mock_ret.provider = "stats"
    THEN Registered({"add_player_stats"}, mock_ret.name)
    ELSE Registered({"add_news_articles"}, mock_ret.name)

\* C29: a fetch on a mock provider fails if an error was ever registered for
\* the name, in whichever order error and response were added; otherwise it
\* returns the most recently registered response for the name, and a stats
\* fetch for a name with nothing registered fails with PlayerNotFound
\* carrying that name.
C29_RegisteredErrorTakesPrecedence ==
    mock_ret # None
    => /\ ErrorsRegistered # <<>> => IsErr(mock_ret.out)
       /\ (ErrorsRegistered = <<>> /\ ResponsesRegistered # <<>>)
            => mock_ret.out = Ok(ResponsesRegistered[Len(ResponsesRegistered)].val)
       /\ (ErrorsRegistered = <<>> /\ ResponsesRegistered = <<>>
             /\ mock_ret.provider = "stats")
            => mock_ret.out = Err(PlayerNotFound(mock_ret.name))

\* an error was registered first and a response for the same name after it
C29_Witness ==
    /\ mock_ret # None
    /\ mock_ret.provider = "stats"
    /\ mock_ret.name = JoshAllenSlug
    /\ Len(mock_log) = 3
    /\ mock_log[1] = MockOp("add_player_stats", JoshAllenSlug, TomBradyStats)
    /\ mock_log[2] = MockOp("add_player_error", JoshAllenSlug, Network)
    /\ mock_log[3] = MockOp("add_player_stats", JoshAllenSlug, JoshAllenStats)
    /\ IsErr(mock_ret.out)

\* C30: for a name with a registered error MockStatsProvider fails with
\* PlayerNotFound carrying the name and MockNewsProvider with NewsApi of
\* status 500, whichever error value was registered.
C30_MockErrorIgnoresRegisteredValue ==
    (mock_ret # None /\ ErrorsRegistered # <<>>)
    => IF mock_ret.provider = "stats"
       THEN mock_ret.out = Err(PlayerNotFound(mock_ret.name))
       ELSE /\ IsErr(mock_ret.out)
            /\ mock_ret.out.err.tag = "NewsApi"
            /\ mock_ret.out.err.status = 500

C30_Witness ==
    /\ mock_ret # None
    /\ mock_ret.provider = "stats"
    /\ mock_ret.name = TomBradySlug
    /\ \E i \in 1..Len(mock_log) :
         mock_log[i] = MockOp("add_player_error", TomBradySlug, StatsApi(500, "forced"))
    /\ mock_ret.out = Err(PlayerNotFound(TomBradySlug))

\* a news error of status 429 was registered and the fetch reports 500
C30_WitnessNews ==
    /\ mock_ret # None
    /\ mock_ret.provider = "news"
    /\ \E i \in 1..Len(mock_log) :
         mock_log[i] = MockOp("add_news_error", mock_ret.name, NewsApi(429, "forced"))
    /\ mock_ret.out = Err(NewsApi(500, "Mock news error"))
====
